---- MODULE Spec2Model ----
(***************************************************************************)
(* Model of src/bot.py: the reminder scheduler (reminder_loop), the event  *)
(* commands that share its snapshot file data.json, and the snapshot       *)
(* load/save functions.                                                    *)
(*                                                                         *)
(* Time is civil Europe/Berlin wall-clock time in whole minutes counted    *)
(* from Epoch.  Every datetime of the program carries the same tzinfo      *)
(* object TZ, so Python compares and adds on the wall-clock value; the     *)
(* thresholds of the scheduler are whole minutes, so the sub-minute part   *)
(* of now_berlin() never decides a comparison.                             *)
(***************************************************************************)
EXTENDS Integers, Sequences, FiniteSets, TLC

VARIABLES
    now,        \* the wall clock, as now_berlin() would return it
    file,       \* data.json
    pc,         \* where reminder_loop is suspended: "sleep" (line 227), "send"
                \* (line 203 or 206), or "save" (about to run lines 221-222)
    data,       \* reminder_loop's local `data`
    n,          \* reminder_loop's local `n`
    changed,    \* reminder_loop's local `changed`
    i,          \* index of `ev` in data["events"] (1-based)
    j,          \* index of `m` in `reminders` (1-based)
    k,          \* index of `uid` in the recipients of the pending send (1-based)
    loaded,     \* history: the snapshot the current tick loaded
    tickLog,    \* history: the sends that returned during the current tick
    prevLog,    \* history: the sends of the previous tick, kept only while the
                \*          current tick follows it directly with the same now
    quiet,      \* history: since the latest tick began no command was handled
                \*          and the clock did not advance
    last,       \* history: how the latest tick ended, or "running"
    delivered,  \* history: every send that ever returned
    lost,       \* history: sends of a crashed tick, until a later tick finishes its loop
    unsaved,    \* history: the in-memory events of a tick whose save_data failed
    cmds,       \* number of commands handled so far
    faults,     \* number of failed sends, failed saves and crashes so far
    ret,        \* result of the function applied by the function-level specifications
    arg,        \* arguments of the function applied by the function-level specifications
    req,        \* history: the latest request a command handler received
    reply,      \* history: what the handler answered to it
    issued,     \* history: the ids create requests have answered with, per kind
    softDeleted \* history: the ids of the todos a delete request has deleted

vars == <<now, file, pc, data, n, changed, i, j, k, loaded,
          tickLog, prevLog, quiet, last, delivered, lost, unsaved, cmds, faults, ret,
          arg, req, reply, issued, softDeleted>>

----------------------------------------------------------------------------
(* Bounds of the model *)

MaxEvents == 2
MaxCommands == 2
MaxFaults == 1
MaxTodos == 2
MaxYears == 3
MaxLate == 2

----------------------------------------------------------------------------
(* Calendar: datetime as minutes since Epoch (BaseYear-01-01 00:00) *)

MinutesPerDay == 24 * 60
Epoch == [year |-> 2023, month |-> 1, day |-> 1]

IsLeap(y) == (y % 4 = 0 /\ y % 100 # 0) \/ y % 400 = 0

DaysInMonth(y, mo) ==
    IF mo = 2 THEN (IF IsLeap(y) THEN 29 ELSE 28)
    ELSE IF mo \in {4, 6, 9, 11} THEN 30 ELSE 31

DaysInYear(y) == IF IsLeap(y) THEN 366 ELSE 365

RECURSIVE DaysBeforeYear(_)
DaysBeforeYear(y) ==
    IF y <= Epoch.year THEN 0 ELSE DaysBeforeYear(y - 1) + DaysInYear(y - 1)

RECURSIVE DaysBeforeMonth(_, _)
DaysBeforeMonth(y, mo) ==
    IF mo <= 1 THEN 0 ELSE DaysBeforeMonth(y, mo - 1) + DaysInMonth(y, mo - 1)

\* datetime(y, mo, d, hh, mi) as minutes since Epoch
DateTime(y, mo, d, hh, mi) ==
    (DaysBeforeYear(y) + DaysBeforeMonth(y, mo) + (d - 1)) * MinutesPerDay + hh * 60 + mi

RECURSIVE YearOfDay(_, _)
YearOfDay(dayno, y) ==
    IF dayno < DaysInYear(y) THEN [year |-> y, rest |-> dayno]
    ELSE YearOfDay(dayno - DaysInYear(y), y + 1)

RECURSIVE MonthOfDay(_, _, _)
MonthOfDay(y, rest, mo) ==
    IF rest < DaysInMonth(y, mo) THEN [month |-> mo, day |-> rest + 1]
    ELSE MonthOfDay(y, rest - DaysInMonth(y, mo), mo + 1)

\* the fields dt.year, dt.month, dt.day and the time of day of a datetime
Civil(dt) ==
    LET yr == YearOfDay(dt \div MinutesPerDay, Epoch.year)
        md == MonthOfDay(yr.year, yr.rest, 1)
    IN  [year |-> yr.year, month |-> md.month, day |-> md.day,
         tod |-> dt % MinutesPerDay]

timedelta_minutes(m) == m
timedelta_hours(h) == h * 60
timedelta_days(d) == d * MinutesPerDay
timedelta_weeks(w) == w * 7 * MinutesPerDay

Min(a, b) == IF a <= b THEN a ELSE b

\* an add_month that takes February for 28 days in every year
add_month_no_leap(dt) ==
    LET c  == Civil(dt)
        m1 == c.month + 1
        y  == IF m1 = 13 THEN c.year + 1 ELSE c.year
        m  == IF m1 = 13 THEN 1 ELSE m1
        last_day == IF m = 2 THEN 28 ELSE DaysInMonth(y, m)
    IN  DateTime(y, m, Min(c.day, last_day), 0, 0) + c.tod
\* an add_month that goes from the last day of a month to the last day of
\* the next
add_month_month_end(dt) ==
    LET c  == Civil(dt)
        m1 == c.month + 1
        y  == IF m1 = 13 THEN c.year + 1 ELSE c.year
        m  == IF m1 = 13 THEN 1 ELSE m1
        last_day == DaysInMonth(y, m)
    IN  IF c.day = DaysInMonth(c.year, c.month)
        THEN DateTime(y, m, last_day, 0, 0) + c.tod
        ELSE DateTime(y, m, Min(c.day, last_day), 0, 0) + c.tod
add_month(dt) ==
    LET c  == Civil(dt)
        m1 == c.month + 1
        y  == IF m1 = 13 THEN c.year + 1 ELSE c.year
        m  == IF m1 = 13 THEN 1 ELSE m1
        next_month == IF m = 12 THEN DateTime(y + 1, 1, 1, 0, 0)
                                ELSE DateTime(y, m + 1, 1, 0, 0)
        last_day == Civil(next_month - timedelta_days(1)).day
    IN  DateTime(y, m, Min(c.day, last_day), 0, 0) + c.tod

\* a next_occurrence that moves a daily or weekly date past the current time
next_occurrence_from_now(dt, recurrence) ==
    IF recurrence = "daily"
    THEN dt + ((now - dt) \div timedelta_days(1) + 1) * timedelta_days(1)
    ELSE IF recurrence = "weekly"
    THEN dt + ((now - dt) \div timedelta_weeks(1) + 1) * timedelta_weeks(1)
    ELSE IF recurrence = "monthly" THEN add_month(dt)
    ELSE dt
\* a next_occurrence that knows daily only
next_occurrence_daily_only(dt, recurrence) ==
    IF recurrence = "daily" THEN dt + timedelta_days(1) ELSE dt
next_occurrence(dt, recurrence) ==
    IF recurrence = "daily" THEN dt + timedelta_days(1)
    ELSE IF recurrence = "weekly" THEN dt + timedelta_weeks(1)
    ELSE IF recurrence = "monthly" THEN add_month(dt)
    ELSE dt

----------------------------------------------------------------------------
(* Command arguments *)

\* an optional argument: None, or a given value
None == [given |-> FALSE, v |-> 0]
Some(x) == [given |-> TRUE, v |-> x]

\* datum is a day number (days since Epoch) when the text is a date and a
\* negative number when strptime cannot parse it; uhrzeit is a minute of the
\* day when the text is a time and 24*60 or more when strptime cannot parse it
parse_date_time(date_str, time_str) ==
    IF date_str >= 0 /\ time_str >= 0 /\ time_str < MinutesPerDay
    THEN [ok |-> TRUE, dt |-> date_str * MinutesPerDay + time_str]
    ELSE [ok |-> FALSE, dt |-> 0]

\* cur.strftime("%d.%m.%Y") and cur.strftime("%H:%M")
strftime_date(dt) == dt \div MinutesPerDay
strftime_time(dt) == dt % MinutesPerDay

\* a reminder text is a sequence of comma-separated parts [num, unit];
\* unit "?" stands for a part int() cannot parse
RemPartOk(p) == p.unit \in {"", "m", "h", "d"}
RemPartMinutes(p) ==
    IF p.unit = "m" THEN p.num
    ELSE IF p.unit = "h" THEN p.num * 60
    ELSE IF p.unit = "d" THEN p.num * 1440
    ELSE p.num

SetMax(S) == CHOOSE x \in S : \A y \in S : y <= x

RECURSIVE SortedDesc(_)
SortedDesc(S) ==
    IF S = {} THEN <<>>
    ELSE LET mx == SetMax(S) IN <<mx>> \o SortedDesc(S \ {mx})

Range(s) == {s[x] : x \in DOMAIN s}

parse_reminders(rem_str) ==
    IF \E x \in DOMAIN rem_str : ~RemPartOk(rem_str[x])
    THEN [ok |-> FALSE, list |-> <<>>]
    ELSE [ok |-> TRUE,
          list |-> SortedDesc({RemPartMinutes(rem_str[x]) : x \in DOMAIN rem_str}
                              \cap Nat)]

\* titel.strip(): a title text is "" or " " (blank) or a word
Strip(s) == IF s = " " THEN "" ELSE s

----------------------------------------------------------------------------
(* The snapshot file and its two functions *)

Recurrences == {"none", "daily", "weekly", "monthly"}

Keys == {"events", "next_event_id", "todos", "next_todo_id"}

\* what the four setdefault calls of load_data put in place of a missing key
Default == [events |-> <<>>, next_event_id |-> 1, todos |-> <<>>, next_todo_id |-> 1]

\* data.json.  kind: "missing" (no file), "unreadable" (open or decoding
\* fails), "invalid" (not JSON, as an interrupted write leaves it),
\* "nonobject" (JSON, but a list, a number, a string or null), "object" (a
\* JSON object holding the keys `keys` with the values doc gives them)
NoFile == [kind |-> "missing", keys |-> {}, doc |-> Default]
PartialFile == [kind |-> "invalid", keys |-> {}, doc |-> Default]
ObjectFile(d) == [kind |-> "object", keys |-> Keys, doc |-> d]

\* load_data: raised = an exception leaves load_data
load_data(f) ==
    IF f.kind \in {"missing", "unreadable", "invalid"}
    THEN [raised |-> FALSE, data |-> Default]
    ELSE IF f.kind = "nonobject"
    THEN [raised |-> TRUE, data |-> Default]
    ELSE [raised |-> FALSE,
          data |-> [events        |-> IF "events" \in f.keys
                                      THEN f.doc.events ELSE Default.events,
                    next_event_id |-> IF "next_event_id" \in f.keys
                                      THEN f.doc.next_event_id ELSE Default.next_event_id,
                    todos         |-> IF "todos" \in f.keys
                                      THEN f.doc.todos ELSE Default.todos,
                    next_todo_id  |-> IF "next_todo_id" \in f.keys
                                      THEN f.doc.next_todo_id ELSE Default.next_todo_id]]

\* save_data(d).  outcome "ok": the document replaces the file; "open_fails":
\* open() raises and the file is as before; "partial": open() has truncated
\* the file and the write raises before the document is complete
SaveOutcomes == {"ok", "open_fails", "partial"}
SaveFailures == SaveOutcomes \ {"ok"}

save_data(f, d, outcome) ==
    IF outcome = "ok" THEN ObjectFile(d)
    ELSE IF outcome = "open_fails" THEN f
    ELSE PartialFile

\* the snapshot a reader of data.json gets
Persisted == load_data(file).data

----------------------------------------------------------------------------
(* Events *)

ChannelTarget == [type |-> "channel", user_ids |-> <<>>]
DmTarget(ids) == [type |-> "dm", user_ids |-> ids]

\* the event dict termin_cmd / ptermin_cmd append
NewEvent(eid, titel, dt, rems, wiederholung, target) ==
    [id |-> eid, title |-> Strip(titel), when |-> dt, reminders |-> rems,
     sent |-> {}, recurrence |-> wiederholung, cancelled |-> FALSE,
     target |-> target]

\* the sends one reminder takes: one to the channel (recipient 0), or one DM
\* per user id, in the stored order
Channel == 0
Recipients(ev) ==
    IF ev.target.type = "channel" THEN <<Channel>> ELSE ev.target.user_ids

\* line 200: n >= (dt - timedelta(minutes=m)) and n < dt + timedelta(hours=24)
\* a due test without the 24h limit
IsDueNoGrace(t, dt, m) == t >= dt - timedelta_minutes(m)
\* a test that is over once the date is reached
IsDueUntilWhen(t, dt, m) == t >= dt - timedelta_minutes(m) /\ t < dt
IsDue(t, dt, m) ==
    t >= dt - timedelta_minutes(m) /\ t < dt + timedelta_hours(24)

\* line 190: the event is skipped
\* a loop that does not skip cancelled events
IsSkippedNever(ev) == FALSE
IsSkipped(ev) == ev.cancelled

\* lines 208-209
\* a bookkeeping that records every offset of the event as sent
MarkSentAll(ev, m) == [ev EXCEPT !.sent = Range(ev.reminders)]
\* a bookkeeping that records nothing
MarkSentNever(ev, m) == ev
MarkSent(ev, m) == [ev EXCEPT !.sent = ev.sent \cup {m}]

\* lines 212-219
\* a rollover that waits until the date is strictly in the past
RollOverStrict(ev, t) ==
    IF t > ev.when
    THEN IF ev.recurrence # "none"
         THEN [ev EXCEPT !.when = next_occurrence(ev.when, ev.recurrence),
                         !.sent = {}]
         ELSE [ev EXCEPT !.cancelled = TRUE]
    ELSE ev
RollOver(ev, t) ==
    IF t >= ev.when
    THEN IF ev.recurrence # "none"
         THEN [ev EXCEPT !.when = next_occurrence(ev.when, ev.recurrence),
                         !.sent = {}]
         ELSE [ev EXCEPT !.cancelled = TRUE]
    ELSE ev

\* the index of the first event with this id that is not cancelled, 0 if none
FirstActive(events, id) ==
    IF \E x \in DOMAIN events : events[x].id = id /\ ~events[x].cancelled
    THEN CHOOSE x \in DOMAIN events :
            /\ events[x].id = id /\ ~events[x].cancelled
            /\ \A y \in DOMAIN events :
                 (events[y].id = id /\ ~events[y].cancelled) => x <= y
    ELSE 0

\* lines 425-439 of termin_edit_cmd: the event after the edit, and whether
\* the new date/time could not be parsed (line 441 returns before the save)
\* an edit that replaces the reminders and keeps sent
EditEventKeepsSent(ev, datum, uhrzeit, titel, erinnerung, wiederholung) ==
    LET e1 == IF titel.given /\ Strip(titel.v) # ""
              THEN [ev EXCEPT !.title = Strip(titel.v)] ELSE ev
        e2 == IF erinnerung.given
              THEN [e1 EXCEPT !.reminders = parse_reminders(erinnerung.v).list]
              ELSE e1
        e3 == IF wiederholung.given
              THEN [e2 EXCEPT !.recurrence = wiederholung.v] ELSE e2
        d  == IF datum.given THEN datum.v ELSE strftime_date(e3.when)
        t  == IF uhrzeit.given THEN uhrzeit.v ELSE strftime_time(e3.when)
        p  == parse_date_time(d, t)
    IN  IF datum.given \/ uhrzeit.given
        THEN IF p.ok THEN [ok |-> TRUE, ev |-> [e3 EXCEPT !.when = p.dt, !.sent = {}]]
                     ELSE [ok |-> FALSE, ev |-> ev]
        ELSE [ok |-> TRUE, ev |-> e3]
\* the edit without line 439: a new date or time keeps sent
EditEventKeepsSentOnDate(ev, datum, uhrzeit, titel, erinnerung, wiederholung) ==
    LET e1 == IF titel.given /\ Strip(titel.v) # ""
              THEN [ev EXCEPT !.title = Strip(titel.v)] ELSE ev
        e2 == IF erinnerung.given
              THEN [e1 EXCEPT !.reminders = parse_reminders(erinnerung.v).list,
                              !.sent = {}]
              ELSE e1
        e3 == IF wiederholung.given
              THEN [e2 EXCEPT !.recurrence = wiederholung.v] ELSE e2
        d  == IF datum.given THEN datum.v ELSE strftime_date(e3.when)
        t  == IF uhrzeit.given THEN uhrzeit.v ELSE strftime_time(e3.when)
        p  == parse_date_time(d, t)
    IN  IF datum.given \/ uhrzeit.given
        THEN IF p.ok THEN [ok |-> TRUE, ev |-> [e3 EXCEPT !.when = p.dt]]
                     ELSE [ok |-> FALSE, ev |-> ev]
        ELSE [ok |-> TRUE, ev |-> e3]
EditEvent(ev, datum, uhrzeit, titel, erinnerung, wiederholung) ==
    LET e1 == IF titel.given /\ Strip(titel.v) # ""
              THEN [ev EXCEPT !.title = Strip(titel.v)] ELSE ev
        e2 == IF erinnerung.given
              THEN [e1 EXCEPT !.reminders = parse_reminders(erinnerung.v).list,
                              !.sent = {}]
              ELSE e1
        e3 == IF wiederholung.given
              THEN [e2 EXCEPT !.recurrence = wiederholung.v] ELSE e2
        d  == IF datum.given THEN datum.v ELSE strftime_date(e3.when)
        t  == IF uhrzeit.given THEN uhrzeit.v ELSE strftime_time(e3.when)
        p  == parse_date_time(d, t)
    IN  IF datum.given \/ uhrzeit.given
        THEN IF p.ok THEN [ok |-> TRUE, ev |-> [e3 EXCEPT !.when = p.dt, !.sent = {}]]
                     ELSE [ok |-> FALSE, ev |-> ev]
        ELSE [ok |-> TRUE, ev |-> e3]

----------------------------------------------------------------------------
(* Todos *)

\* the todo dict todo_add_cmd and AddTodoModal.on_submit append
NewTodo(tid, titel, scope, au, ar, creator, created, due) ==
    [id |-> tid, title |-> Strip(titel), description |-> "", scope |-> scope,
     assigned_user_id |-> au, assigned_role_id |-> ar, created_by |-> creator,
     created_at |-> created, due |-> due, done |-> FALSE, done_at |-> None,
     deleted |-> FALSE]

\* a discord.Member: id, the ids of its roles, guild_permissions.manage_guild
Member(uid, roles, elevated) == [id |-> uid, roles |-> roles, manage_guild |-> elevated]

user_role_ids(member) == member.roles

\* int(x) of a stored id.  int(None) raises TypeError: the value is no
\* integer, and comparing it with one is no value at all
TypeError == "TypeError"
int_(x) == IF x.given THEN x.v ELSE TypeError

\* a todo_is_relevant that forgets the creator of a role-scoped todo
todo_is_relevant_role_only(todo, member) ==
    IF todo.deleted THEN FALSE
    ELSE IF todo.scope = "public" THEN TRUE
    ELSE IF todo.scope = "private" THEN todo.created_by = member.id
    ELSE IF todo.scope = "user"
    THEN int_(todo.assigned_user_id) = member.id \/ todo.created_by = member.id
    ELSE IF todo.scope = "role"
    THEN int_(todo.assigned_role_id) \in user_role_ids(member)
    ELSE FALSE

\* a todo_is_relevant that shows a user-scoped todo to its assigned user only
todo_is_relevant_assignee_only(todo, member) ==
    IF todo.deleted THEN FALSE
    ELSE IF todo.scope = "public" THEN TRUE
    ELSE IF todo.scope = "private" THEN todo.created_by = member.id
    ELSE IF todo.scope = "user"
    THEN int_(todo.assigned_user_id) = member.id
    ELSE IF todo.scope = "role"
    THEN \/ int_(todo.assigned_role_id) \in user_role_ids(member)
         \/ todo.created_by = member.id
    ELSE FALSE

\* lines 235-248
todo_is_relevant(todo, member) ==
    IF todo.deleted THEN FALSE
    ELSE IF todo.scope = "public" THEN TRUE
    ELSE IF todo.scope = "private" THEN todo.created_by = member.id
    ELSE IF todo.scope = "user"
    THEN int_(todo.assigned_user_id) = member.id \/ todo.created_by = member.id
    ELSE IF todo.scope = "role"
    THEN \/ int_(todo.assigned_role_id) \in user_role_ids(member)
         \/ todo.created_by = member.id
    ELSE FALSE

\* a can_modify_todo that lets every holder of the assigned role modify
can_modify_todo_role(todo, member) ==
    IF todo.created_by = member.id THEN TRUE
    ELSE IF todo.scope = "user" /\ int_(todo.assigned_user_id) = member.id THEN TRUE
    ELSE IF todo.scope = "role" /\ int_(todo.assigned_role_id) \in user_role_ids(member)
    THEN TRUE
    ELSE IF member.manage_guild THEN TRUE
    ELSE FALSE

\* lines 250-257
can_modify_todo(todo, member) ==
    IF todo.created_by = member.id THEN TRUE
    ELSE IF todo.scope = "user" /\ int_(todo.assigned_user_id) = member.id THEN TRUE
    ELSE IF member.manage_guild THEN TRUE
    ELSE FALSE

----------------------------------------------------------------------------
(* Inputs offered to the commands, and the instants the clock is read at *)

W1 == DateTime(2024, 1, 31, 10, 0)
D1 == strftime_date(W1)
T1 == strftime_time(W1)
DMonthBefore == strftime_date(DateTime(2023, 12, 31, 10, 0))

Part(num, unit) == [num |-> num, unit |-> unit]
Rem30_0 == <<Part(30, ""), Part(0, "m")>>      \* "30,0m"
Rem1d_0 == <<Part(0, ""), Part(1, "d")>>       \* "0,1d"
Rem10   == <<Part(10, "")>>                    \* "10"

\* the clock starts an hour before W1 and is read at these instants
ClockPoints == {W1 - 60, W1 - 30, W1, W1 + timedelta_hours(24)}

EventInput(datum, erinnerung, wiederholung) ==
    [datum |-> datum, uhrzeit |-> T1, titel |-> "A", erinnerung |-> erinnerung,
     wiederholung |-> wiederholung]

\* /termin: an event at W1 of each kind; the weekly one is entered two weeks
\* late and the monthly one a month late
TerminInputs ==
    {EventInput(D1, Rem30_0, "none"), EventInput(D1, Rem1d_0, "daily"),
     EventInput(D1 - 14, Rem30_0, "weekly"),
     EventInput(DMonthBefore, Rem30_0, "monthly")}

\* /ptermin by user 1 with person1 = user 2
PTerminInputs ==
    {[x \in {"user"} |-> 1] @@ [x \in {"persons"} |-> {2}]
        @@ EventInput(D1, Rem30_0, "none")}

\* /termin_edit: a new date, or new reminders
EditInput(datum, erinnerung) ==
    [datum |-> datum, uhrzeit |-> None, titel |-> None, erinnerung |-> erinnerung,
     wiederholung |-> None]

EditInputs == {EditInput(Some(D1 + 1), None), EditInput(None, Some(Rem10))}

----------------------------------------------------------------------------
(* Initial state: the bot starts in a directory without data.json *)

NoUnsaved == [set |-> FALSE, events |-> <<>>]

\* no request has been received, no function applied
NoArg == [fn |-> "none"]
NoRequest == [cmd |-> "none"]
NoReply == [kind |-> "none", id |-> 0]
NothingIssued == [events |-> {}, todos |-> {}]

\* no call of load_data has returned or raised
NotCalled == [called |-> FALSE, raised |-> FALSE, data |-> Default]

\* reminder_loop between two ticks: its locals hold nothing
Idle ==
    /\ pc' = "sleep"
    /\ data' = Default
    /\ loaded' = Default
    /\ n' = 0
    /\ changed' = FALSE
    /\ i' = 1 /\ j' = 1 /\ k' = 1

Init ==
    /\ now = W1 - 60
    /\ file = NoFile
    /\ pc = "sleep"
    /\ data = Default
    /\ loaded = Default
    /\ n = 0
    /\ changed = FALSE
    /\ i = 1 /\ j = 1 /\ k = 1
    /\ tickLog = {}
    /\ prevLog = {}
    /\ quiet = FALSE
    /\ last = "none"
    /\ delivered = {}
    /\ lost = {}
    /\ unsaved = NoUnsaved
    /\ cmds = 0
    /\ faults = 0
    /\ ret = NotCalled
    /\ arg = NoArg
    /\ req = NoRequest
    /\ reply = NoReply
    /\ issued = NothingIssued
    /\ softDeleted = {}

----------------------------------------------------------------------------
(* reminder_loop.  Its code runs without interruption from one await to the *)
(* next, so a step of the model runs from one await to the next.           *)

tickLocals == <<data, n, changed, i, j, k, loaded>>
history == <<tickLog, prevLog, quiet, last, delivered, lost, unsaved>>
budget == <<cmds, faults>>
trace == <<arg, req, reply, issued, softDeleted>>

\* a send or a save fails, or the process crashes: counted against MaxFaults
Fault ==
    /\ faults < MaxFaults
    /\ faults' = faults + 1
    /\ UNCHANGED cmds

\* lines 189-219 from `for ev` at index x, `for m` at index y on: the locals
\* when the loops reach the next send (lines 203/206) or end (line 221)
RECURSIVE Scan(_, _, _, _, _)
Scan(d, x, y, ch, t) ==
    IF x > Len(d.events)
    THEN [pc |-> "save", data |-> d, i |-> 1, j |-> 1, changed |-> ch]
    ELSE LET ev == d.events[x] IN
         IF IsSkipped(ev)
         THEN Scan(d, x + 1, 1, ch, t)
         ELSE IF y > Len(ev.reminders)
         THEN Scan([d EXCEPT !.events[x] = RollOver(ev, t)], x + 1, 1,
                   ch \/ t >= ev.when, t)
         ELSE IF ev.reminders[y] \in ev.sent \/ ~IsDue(t, ev.when, ev.reminders[y])
         THEN Scan(d, x, y + 1, ch, t)
         ELSE [pc |-> "send", data |-> d, i |-> x, j |-> y, changed |-> ch]

Resume(st) ==
    /\ pc' = st.pc
    /\ data' = st.data
    /\ i' = st.i
    /\ j' = st.j
    /\ changed' = st.changed
    /\ k' = 1

\* line 185: the snapshot a tick works on
\* a tick that starts from what the previous tick failed to save
TickSnapshotRetained(f, mem) ==
    IF mem.set THEN [load_data(f).data EXCEPT !.events = mem.events]
    ELSE load_data(f).data
\* a tick that keeps in memory what the tick before it sent and takes those
\* offsets for sent
TickSnapshotRemembers(f, mem) ==
    LET d == load_data(f).data
    IN  [d EXCEPT !.events =
           [x \in DOMAIN d.events |->
              [d.events[x] EXCEPT !.sent =
                 @ \cup {e.m : e \in {g \in tickLog : /\ g.id = d.events[x].id
                                                       /\ g.when = d.events[x].when}}]]]
TickSnapshot(f, mem) == load_data(f).data

\* lines 185-187, then the loops up to the first send
TickLoad ==
    /\ pc = "sleep"
    /\ n' = now
    /\ loaded' = TickSnapshot(file, unsaved)
    /\ Resume(Scan(TickSnapshot(file, unsaved), 1, 1, FALSE, now))
    /\ prevLog' = IF last = "ok" /\ quiet THEN tickLog ELSE {}
    /\ tickLog' = {}
    /\ quiet' = TRUE
    /\ last' = "running"
    /\ UNCHANGED <<now, file, delivered, lost, unsaved, ret, trace, budget>>

\* the record of the send reminder_loop is suspended in
Sending == LET ev == data.events[i] IN
    [id |-> ev.id, when |-> ev.when, m |-> ev.reminders[j], uid |-> Recipients(ev)[k]]

\* lines 203 / 206: the awaited send returns; after the last recipient,
\* lines 208-210 and the loops up to the next send
SendOk ==
    /\ pc = "send"
    /\ tickLog' = tickLog \cup {Sending}
    /\ delivered' = delivered \cup {Sending}
    /\ IF k < Len(Recipients(data.events[i]))
       THEN /\ k' = k + 1
            /\ UNCHANGED <<pc, data, changed, i, j>>
       ELSE Resume(Scan([data EXCEPT !.events[i] = MarkSent(@, @.reminders[j])],
                        i, j + 1, TRUE, n))
    /\ UNCHANGED <<now, file, n, loaded, prevLog, quiet, last, lost, unsaved, ret, trace, budget>>

\* lines 203 / 206 raise: the exception leaves both loops and is caught at
\* line 224; line 227 sleeps
SendAborts ==
    /\ pc = "send"
    /\ Idle
    /\ last' = "send_failed"
    /\ UNCHANGED <<now, file, tickLog, prevLog, quiet, delivered, lost, unsaved, ret, trace>>

SendFail == SendAborts /\ Fault

\* a tick that never writes its snapshot
TickSaveNoWrite ==
    /\ pc = "save"
    /\ file' = file
    /\ Idle
    /\ last' = "ok"
    /\ lost' = {}
    /\ unsaved' = NoUnsaved
    /\ UNCHANGED <<now, tickLog, prevLog, quiet, delivered, ret, trace, budget>>

\* a tick that writes its events into the snapshot data.json holds by then
TickSaveMerged ==
    /\ pc = "save"
    /\ file' = IF changed
               THEN save_data(file, [Persisted EXCEPT !.events = data.events], "ok")
               ELSE file
    /\ Idle
    /\ last' = "ok"
    /\ lost' = {}
    /\ unsaved' = NoUnsaved
    /\ UNCHANGED <<now, tickLog, prevLog, quiet, delivered, ret, trace, budget>>

\* lines 221-222 without an exception, then line 227
TickSave ==
    /\ pc = "save"
    /\ file' = IF changed THEN save_data(file, data, "ok") ELSE file
    /\ Idle
    /\ last' = "ok"
    /\ lost' = {}
    /\ unsaved' = NoUnsaved
    /\ UNCHANGED <<now, tickLog, prevLog, quiet, delivered, ret, trace, budget>>

\* line 222 raises: caught at line 224, then line 227
TickSaveFail(outcome) ==
    /\ pc = "save"
    /\ changed
    /\ file' = save_data(file, data, outcome)
    /\ Idle
    /\ last' = "save_failed"
    /\ lost' = {}
    /\ unsaved' = [set |-> TRUE, events |-> data.events]
    /\ UNCHANGED <<now, tickLog, prevLog, quiet, delivered, ret, trace>>
    /\ Fault

\* the process dies inside a tick and is started again: the locals are gone,
\* data.json is as the last write left it (a write the crash interrupts
\* leaves it incomplete)
Crash ==
    /\ pc # "sleep"
    /\ \/ file' = file
       \/ pc = "save" /\ changed /\ file' = PartialFile
    /\ Idle
    /\ last' = "crashed"
    /\ lost' = tickLog
    /\ tickLog' = {}
    /\ prevLog' = {}
    /\ unsaved' = NoUnsaved
    /\ UNCHANGED <<now, quiet, delivered, ret, trace>>
    /\ Fault

\* time passes while reminder_loop is suspended in an await
AtAwait == pc \in {"sleep", "send"}

Advance(t) ==
    /\ AtAwait
    /\ t > now
    /\ now' = t
    /\ quiet' = FALSE
    /\ UNCHANGED <<file, pc, tickLocals, tickLog, prevLog, last, delivered, lost,
                   unsaved, ret, trace, budget>>

----------------------------------------------------------------------------
(* Command handlers: load_data .. save_data run without an await, so each   *)
(* is one step, taken while reminder_loop is suspended                      *)

CommandFrame(outcome) ==
    /\ cmds < MaxCommands
    /\ cmds' = cmds + 1
    /\ IF outcome = "ok" THEN UNCHANGED faults
       ELSE faults < MaxFaults /\ faults' = faults + 1
    /\ quiet' = FALSE
    /\ unsaved' = NoUnsaved
    /\ UNCHANGED <<now, pc, tickLocals, tickLog, prevLog, last, delivered, lost, ret, arg>>

\* what a handler answers: the id it created, done, id not found, no
\* rights, input refused, or an exception that leaves the handler
Reply(kind) == [kind |-> kind, id |-> 0]
Created(id) == [kind |-> "created", id |-> id]

\* the request and the answer, for the record
Answer(request, response) ==
    /\ req' = request
    /\ reply' = response
    /\ issued' = IF response.kind = "created"
                 THEN [issued EXCEPT ![request.kind] = @ \cup {response.id}]
                 ELSE issued
    /\ softDeleted' = IF response.kind = "ok" /\ request.cmd \in {"todo_delete", "todo_del_btn"}
                      THEN softDeleted \cup {request.id}
                      ELSE softDeleted

\* save_data(d) as the last statement that can fail: the file and the answer
Save(d, outcome, request, response) ==
    /\ file' = save_data(file, d, outcome)
    /\ Answer(request, IF outcome = "ok" THEN response ELSE Reply("raised"))
    /\ CommandFrame(outcome)

\* a handler that returns, or raises, before it saves
NoSave(outcome, request, response) ==
    /\ outcome = "ok"
    /\ file' = file
    /\ Answer(request, response)
    /\ CommandFrame(outcome)

\* new_event_id: the id handed out
new_event_id(d) == d.next_event_id

\* the snapshot with one more event, as lines 298-312 build it
WithNewEvent(d, inp, rems, target) ==
    [d EXCEPT !.events = Append(@, NewEvent(new_event_id(d), inp.titel,
                                   parse_date_time(inp.datum, inp.uhrzeit).dt,
                                   rems, inp.wiederholung, target)),
              !.next_event_id = @ + 1]

\* lines 291-321
termin_cmd(inp, outcome) ==
    /\ AtAwait
    /\ Len(Persisted.events) < MaxEvents
    /\ LET p == parse_date_time(inp.datum, inp.uhrzeit)
           r == parse_reminders(inp.erinnerung)
           request == [cmd |-> "termin", kind |-> "events", inp |-> inp]
       IN  IF ~p.ok THEN NoSave(outcome, request, Reply("invalid"))
           ELSE IF ~r.ok THEN NoSave(outcome, request, Reply("raised"))
           ELSE Save(WithNewEvent(Persisted, inp, r.list, ChannelTarget), outcome,
                     request, Created(new_event_id(Persisted)))

\* lines 327-360
ptermin_cmd(inp, outcome) ==
    /\ AtAwait
    /\ Len(Persisted.events) < MaxEvents
    /\ LET p == parse_date_time(inp.datum, inp.uhrzeit)
           r == parse_reminders(inp.erinnerung)
           ids == {inp.user} \cup inp.persons
           sorted_ids == [x \in 1..Cardinality(ids) |->
                            SortedDesc(ids)[Cardinality(ids) + 1 - x]]
           request == [cmd |-> "ptermin", kind |-> "events", inp |-> inp]
       IN  IF ~p.ok THEN NoSave(outcome, request, Reply("invalid"))
           ELSE IF ~r.ok THEN NoSave(outcome, request, Reply("raised"))
           ELSE Save(WithNewEvent(Persisted, inp, r.list, DmTarget(sorted_ids)), outcome,
                     request, Created(new_event_id(Persisted)))

\* a cancel that writes the event back with the sent set of a new event
termin_absagen_clears_sent(termin_id, outcome) ==
    /\ AtAwait
    /\ LET d == Persisted
           x == FirstActive(d.events, termin_id)
           request == [cmd |-> "termin_absagen", kind |-> "events", id |-> termin_id]
       IN  IF x = 0 THEN NoSave(outcome, request, Reply("not_found"))
           ELSE Save([d EXCEPT !.events[x].cancelled = TRUE, !.events[x].sent = {}],
                     outcome, request, Reply("ok"))

\* a cancel that was suspended between its load and its save: it cancels in
\* the snapshot read at the last load before the suspension and writes that
termin_absagen_suspended(termin_id, outcome) ==
    /\ AtAwait
    /\ LET d == loaded
           x == FirstActive(d.events, termin_id)
           request == [cmd |-> "termin_absagen", kind |-> "events", id |-> termin_id]
       IN  IF x = 0 THEN NoSave(outcome, request, Reply("not_found"))
           ELSE Save([d EXCEPT !.events[x].cancelled = TRUE], outcome, request, Reply("ok"))

\* lines 397-405
termin_absagen_cmd(termin_id, outcome) ==
    /\ AtAwait
    /\ LET d == Persisted
           x == FirstActive(d.events, termin_id)
           request == [cmd |-> "termin_absagen", kind |-> "events", id |-> termin_id]
       IN  IF x = 0 THEN NoSave(outcome, request, Reply("not_found"))
           ELSE Save([d EXCEPT !.events[x].cancelled = TRUE], outcome, request, Reply("ok"))

\* lines 410-444
termin_edit_cmd(termin_id, inp, outcome) ==
    /\ AtAwait
    /\ LET d == Persisted
           x == FirstActive(d.events, termin_id)
           request == [cmd |-> "termin_edit", kind |-> "events", id |-> termin_id,
                       inp |-> inp]
       IN  IF x = 0 THEN NoSave(outcome, request, Reply("not_found"))
           ELSE IF inp.erinnerung.given /\ ~parse_reminders(inp.erinnerung.v).ok
           THEN NoSave(outcome, request, Reply("raised"))
           ELSE LET e == EditEvent(d.events[x], inp.datum, inp.uhrzeit, inp.titel,
                                   inp.erinnerung, inp.wiederholung)
                IN  IF ~e.ok THEN NoSave(outcome, request, Reply("invalid"))
                    ELSE Save([d EXCEPT !.events[x] = e.ev], outcome, request, Reply("ok"))

----------------------------------------------------------------------------
(* Todo command handlers *)

\* the empty text, as a date argument
EmptyText == 0 - 1

\* new_todo_id: the id handed out
new_todo_id(d) == d.next_todo_id

\* the index of the first todo with this id that is not deleted, 0 if none
find_todo(d, tid) ==
    IF \E x \in DOMAIN d.todos : d.todos[x].id = tid /\ ~d.todos[x].deleted
    THEN CHOOSE x \in DOMAIN d.todos :
            /\ d.todos[x].id = tid /\ ~d.todos[x].deleted
            /\ \A y \in DOMAIN d.todos :
                 (d.todos[y].id = tid /\ ~d.todos[y].deleted) => x <= y
    ELSE 0

\* who sends a request: a member of the guild, or a user outside of it
Actor(member, in_guild) == [member |-> member, in_guild |-> in_guild]

\* `faellig_uhrzeit or "23:59"`
OrEndOfDay(uhrzeit) == IF uhrzeit.given THEN uhrzeit.v ELSE 23 * 60 + 59

\* the snapshot with one more todo, as lines 488-503 and 832-847 build it
WithNewTodo(d, titel, scope, au, ar, creator, due) ==
    [d EXCEPT !.todos = Append(@, NewTodo(new_todo_id(d), titel, scope, au, ar,
                                          creator, now, due)),
              !.next_todo_id = @ + 1]

\* lines 459-505
todo_add_cmd(actor, inp, outcome) ==
    /\ AtAwait
    /\ Len(Persisted.todos) < MaxTodos
    /\ LET request == [cmd |-> "todo_add", kind |-> "todos", actor |-> actor, inp |-> inp]
           scope == IF inp.privat THEN "private"
                    ELSE IF inp.rolle.given THEN "role"
                    ELSE IF inp.user.given THEN "user" ELSE "public"
           au == IF ~inp.privat /\ inp.user.given THEN inp.user ELSE None
           ar == IF ~inp.privat /\ inp.rolle.given THEN inp.rolle ELSE None
           dated == inp.faellig_datum.given /\ inp.faellig_datum.v # EmptyText
           p == parse_date_time(inp.faellig_datum.v, OrEndOfDay(inp.faellig_uhrzeit))
       IN  IF inp.user.given /\ inp.rolle.given
           THEN NoSave(outcome, request, Reply("invalid"))
           ELSE IF dated /\ ~p.ok THEN NoSave(outcome, request, Reply("invalid"))
           ELSE Save(WithNewTodo(Persisted, inp.titel, scope, au, ar, actor.member.id,
                                 IF dated THEN Some(p.dt) ELSE None),
                     outcome, request, Created(new_todo_id(Persisted)))

\* AddTodoModal.on_submit, lines 801-851.  scope is the text after
\* strip().lower(); due is None for an empty text, else the two parts of the
\* text (a text that does not split in two is an unparsable date)
AddTodoModal_on_submit(actor, owner_id, picked, inp, outcome) ==
    /\ AtAwait
    /\ Len(Persisted.todos) < MaxTodos
    /\ LET request == [cmd |-> "AddTodoModal", kind |-> "todos", actor |-> actor,
                       inp |-> inp]
           scope == IF inp.scope \in {"public", "private", "user", "role"}
                    THEN inp.scope ELSE "public"
           au == IF scope = "user" THEN picked.user ELSE None
           ar == IF scope = "role" THEN picked.role ELSE None
           p == parse_date_time(inp.due.v.datum, inp.due.v.uhrzeit)
       IN  IF actor.member.id # owner_id
           THEN NoSave(outcome, request, Reply("no_rights"))
           ELSE IF scope = "user" /\ ~au.given
           THEN NoSave(outcome, request, Reply("invalid"))
           ELSE IF scope = "role" /\ ~ar.given
           THEN NoSave(outcome, request, Reply("invalid"))
           ELSE IF inp.due.given /\ ~p.ok
           THEN NoSave(outcome, request, Reply("invalid"))
           ELSE Save(WithNewTodo(Persisted, inp.titel, scope, au, ar, actor.member.id,
                                 IF inp.due.given THEN Some(p.dt) ELSE None),
                     outcome, request, Created(new_todo_id(Persisted)))

\* lines 570-571, 590-591, 610
MarkDone(todo) == [todo EXCEPT !.done = TRUE, !.done_at = Some(now)]
MarkOpen(todo) == [todo EXCEPT !.done = FALSE, !.done_at = None]
MarkDeleted(todo) == [todo EXCEPT !.deleted = TRUE]

\* what the handler of a done, undo or delete request does to the todo it found
Changed(change, todo) ==
    IF change = "done" THEN MarkDone(todo)
    ELSE IF change = "undo" THEN MarkOpen(todo)
    ELSE MarkDeleted(todo)

\* the body shared by /todo_done, /todo_undo and /todo_delete: lines 560-574,
\* 580-594, 600-613; change is what the handler does to the todo it found
TodoRequest(request, actor, todo_id, change, outcome) ==
    /\ AtAwait
    /\ LET d == Persisted
           x == find_todo(d, todo_id)
       IN  IF ~actor.in_guild THEN NoSave(outcome, request, Reply("invalid"))
           ELSE IF x = 0 THEN NoSave(outcome, request, Reply("not_found"))
           ELSE IF ~can_modify_todo(d.todos[x], actor.member)
           THEN NoSave(outcome, request, Reply("no_rights"))
           ELSE Save([d EXCEPT !.todos[x] = Changed(change, @)], outcome, request, Reply("ok"))


\* lines 558-574
todo_done_cmd(actor, todo_id, outcome) ==
    TodoRequest([cmd |-> "todo_done", kind |-> "todos", actor |-> actor, id |-> todo_id],
                actor, todo_id, "done", outcome)

\* lines 578-594
todo_undo_cmd(actor, todo_id, outcome) ==
    TodoRequest([cmd |-> "todo_undo", kind |-> "todos", actor |-> actor, id |-> todo_id],
                actor, todo_id, "undo", outcome)

\* lines 598-613
todo_delete_cmd(actor, todo_id, outcome) ==
    TodoRequest([cmd |-> "todo_delete", kind |-> "todos", actor |-> actor, id |-> todo_id],
                actor, todo_id, "delete", outcome)

\* the edit without line 662: a role is assigned and the assigned user stays
EditTodoKeepsUser(todo, inp) ==
    LET t1 == IF inp.titel.given /\ Strip(inp.titel.v) # ""
              THEN [todo EXCEPT !.title = Strip(inp.titel.v)] ELSE todo
        t2 == IF inp.beschreibung.given
              THEN [t1 EXCEPT !.description = Strip(inp.beschreibung.v)] ELSE t1
        t3 == IF inp.privat.given /\ inp.privat.v
              THEN [t2 EXCEPT !.scope = "private", !.assigned_user_id = None,
                              !.assigned_role_id = None]
              ELSE IF /\ inp.privat.given /\ ~inp.privat.v
                      /\ ~inp.user.given /\ ~inp.rolle.given /\ t2.scope = "private"
              THEN [t2 EXCEPT !.scope = "public"]
              ELSE t2
        t4 == IF inp.user.given
              THEN [t3 EXCEPT !.scope = "user", !.assigned_user_id = inp.user,
                              !.assigned_role_id = None]
              ELSE t3
        t5 == IF inp.rolle.given
              THEN [t4 EXCEPT !.scope = "role", !.assigned_role_id = inp.rolle]
              ELSE t4
        p  == parse_date_time(inp.faellig_datum.v, OrEndOfDay(inp.faellig_uhrzeit))
    IN  IF ~inp.faellig_datum.given THEN [ok |-> TRUE, todo |-> t5]
        ELSE IF inp.faellig_datum.v = EmptyText
        THEN [ok |-> TRUE, todo |-> [t5 EXCEPT !.due = None]]
        ELSE IF p.ok THEN [ok |-> TRUE, todo |-> [t5 EXCEPT !.due = Some(p.dt)]]
        ELSE [ok |-> FALSE, todo |-> todo]

\* lines 643-671 of todo_edit_cmd: the todo after the edit, and whether the
\* new due date could not be parsed (line 671 returns before the save)
EditTodo(todo, inp) ==
    LET t1 == IF inp.titel.given /\ Strip(inp.titel.v) # ""
              THEN [todo EXCEPT !.title = Strip(inp.titel.v)] ELSE todo
        t2 == IF inp.beschreibung.given
              THEN [t1 EXCEPT !.description = Strip(inp.beschreibung.v)] ELSE t1
        t3 == IF inp.privat.given /\ inp.privat.v
              THEN [t2 EXCEPT !.scope = "private", !.assigned_user_id = None,
                              !.assigned_role_id = None]
              ELSE IF /\ inp.privat.given /\ ~inp.privat.v
                      /\ ~inp.user.given /\ ~inp.rolle.given /\ t2.scope = "private"
              THEN [t2 EXCEPT !.scope = "public"]
              ELSE t2
        t4 == IF inp.user.given
              THEN [t3 EXCEPT !.scope = "user", !.assigned_user_id = inp.user,
                              !.assigned_role_id = None]
              ELSE t3
        t5 == IF inp.rolle.given
              THEN [t4 EXCEPT !.scope = "role", !.assigned_role_id = inp.rolle,
                              !.assigned_user_id = None]
              ELSE t4
        p  == parse_date_time(inp.faellig_datum.v, OrEndOfDay(inp.faellig_uhrzeit))
    IN  IF ~inp.faellig_datum.given THEN [ok |-> TRUE, todo |-> t5]
        ELSE IF inp.faellig_datum.v = EmptyText
        THEN [ok |-> TRUE, todo |-> [t5 EXCEPT !.due = None]]
        ELSE IF p.ok THEN [ok |-> TRUE, todo |-> [t5 EXCEPT !.due = Some(p.dt)]]
        ELSE [ok |-> FALSE, todo |-> todo]

\* lines 618-674
todo_edit_cmd(actor, todo_id, inp, outcome) ==
    /\ AtAwait
    /\ LET d == Persisted
           x == find_todo(d, todo_id)
           request == [cmd |-> "todo_edit", kind |-> "todos", actor |-> actor,
                       id |-> todo_id, inp |-> inp]
       IN  IF ~actor.in_guild THEN NoSave(outcome, request, Reply("invalid"))
           ELSE IF inp.user.given /\ inp.rolle.given
           THEN NoSave(outcome, request, Reply("invalid"))
           ELSE IF x = 0 THEN NoSave(outcome, request, Reply("not_found"))
           ELSE IF ~can_modify_todo(d.todos[x], actor.member)
           THEN NoSave(outcome, request, Reply("no_rights"))
           ELSE LET e == EditTodo(d.todos[x], inp)
                IN  IF ~e.ok THEN NoSave(outcome, request, Reply("invalid"))
                    ELSE Save([d EXCEPT !.todos[x] = e.todo], outcome, request, Reply("ok"))

----------------------------------------------------------------------------
(* The dashboard: a DashboardView keeps the member it was opened for, the   *)
(* tab and the id selected in the dropdown (0: none selected); only that   *)
(* member passes interaction_check                                         *)

DashboardView(member, tab, selected_id) ==
    [member |-> member, tab |-> tab, selected_id |-> selected_id]

TodoTabs == {"todos_open", "todos_done"}
EventTabs == {"events_active", "events_all"}

\* the body shared by todo_done_btn, todo_undo_btn and todo_del_btn: lines
\* 1087-1100, 1102-1115, 1117-1129
TodoButton(request, view, change, outcome) ==
    /\ AtAwait
    /\ LET d == Persisted
           x == find_todo(d, view.selected_id)
       IN  IF view.tab \notin TodoTabs \/ view.selected_id = 0
           THEN NoSave(outcome, request, Reply("invalid"))
           ELSE IF x = 0 THEN NoSave(outcome, request, Reply("not_found"))
           ELSE IF ~can_modify_todo(d.todos[x], view.member)
           THEN NoSave(outcome, request, Reply("no_rights"))
           ELSE Save([d EXCEPT !.todos[x] = Changed(change, @)], outcome, request, Reply("ok"))

ButtonRequest(cmd, view) ==
    [cmd |-> cmd, kind |-> "todos", actor |-> Actor(view.member, TRUE),
     id |-> view.selected_id, view |-> view]

\* lines 1087-1100
todo_done_btn(view, outcome) ==
    TodoButton(ButtonRequest("todo_done_btn", view), view, "done", outcome)

\* lines 1102-1115
todo_undo_btn(view, outcome) ==
    TodoButton(ButtonRequest("todo_undo_btn", view), view, "undo", outcome)

\* lines 1117-1129
todo_del_btn(view, outcome) ==
    TodoButton(ButtonRequest("todo_del_btn", view), view, "delete", outcome)

\* lines 771-772: the index of the first event with this id, 0 if none
find_event(d, eid) ==
    IF \E x \in DOMAIN d.events : d.events[x].id = eid
    THEN CHOOSE x \in DOMAIN d.events :
            /\ d.events[x].id = eid
            /\ \A y \in DOMAIN d.events : d.events[y].id = eid => x <= y
    ELSE 0

\* lines 1139-1149
event_cancel_btn(view, outcome) ==
    /\ AtAwait
    /\ LET d == Persisted
           x == find_event(d, view.selected_id)
           request == [cmd |-> "event_cancel_btn", kind |-> "events",
                       id |-> view.selected_id, view |-> view]
       IN  IF view.tab \notin EventTabs \/ view.selected_id = 0
           THEN NoSave(outcome, request, Reply("invalid"))
           ELSE IF x = 0 THEN NoSave(outcome, request, Reply("not_found"))
           ELSE Save([d EXCEPT !.events[x].cancelled = TRUE], outcome, request, Reply("ok"))

\* AddEventModal.on_submit, lines 868-923.  dt is None for a text that does
\* not split in two, else its two parts; rems is the reminder text, "30" when
\* left empty; rec and target are what lines 881-889 read from the text
AddEventModal_on_submit(actor, owner_id, picked_dm_user_ids, inp, outcome) ==
    /\ AtAwait
    /\ Len(Persisted.events) < MaxEvents
    /\ LET request == [cmd |-> "AddEventModal", kind |-> "events", actor |-> actor,
                       inp |-> inp]
           p == parse_date_time(inp.dt.v.datum, inp.dt.v.uhrzeit)
           r == parse_reminders(IF inp.rems = <<>> THEN <<Part(30, "")>> ELSE inp.rems)
           rec == IF inp.rec \in Recurrences THEN inp.rec ELSE "none"
           ids == picked_dm_user_ids \cup {actor.member.id}
           sorted_ids == [x \in 1..Cardinality(ids) |->
                            SortedDesc(ids)[Cardinality(ids) + 1 - x]]
           target == IF inp.target = "dm" THEN DmTarget(sorted_ids) ELSE ChannelTarget
           ev == [titel |-> inp.titel, datum |-> inp.dt.v.datum,
                  uhrzeit |-> inp.dt.v.uhrzeit, wiederholung |-> rec]
       IN  IF actor.member.id # owner_id
           THEN NoSave(outcome, request, Reply("no_rights"))
           ELSE IF ~inp.dt.given \/ ~p.ok
           THEN NoSave(outcome, request, Reply("invalid"))
           ELSE IF ~r.ok THEN NoSave(outcome, request, Reply("raised"))
           ELSE Save(WithNewEvent(Persisted, ev, r.list, target), outcome,
                     request, Created(new_event_id(Persisted)))

----------------------------------------------------------------------------
(* The lists: /todos, /oldtodos and the tabs of the dashboard *)

\* list.sort(key=...): stable, ascending in the key; a key is a pair
KeyLess(a, b) == a[1] < b[1] \/ (a[1] = b[1] /\ a[2] < b[2])

RECURSIVE InsertByKey(_, _)
InsertByKey(s, e) ==
    IF s = <<>> THEN <<e>>
    ELSE IF KeyLess(e.key, Head(s).key) THEN <<e>> \o s
    ELSE <<Head(s)>> \o InsertByKey(Tail(s), e)

RECURSIVE SortPairs(_)
SortPairs(s) ==
    IF s = <<>> THEN <<>>
    ELSE InsertByKey(SortPairs(SubSeq(s, 1, Len(s) - 1)), s[Len(s)])

\* datetime.max and datetime.min: later and earlier than every stored date
DatetimeMax == 10000 * 366 * MinutesPerDay
DatetimeMin == 0 - 1

\* lines 516-520 and 686-690: by due date, then by creation
OpenKey(t) == <<IF t.due.given THEN t.due.v ELSE DatetimeMax, t.created_at>>
\* lines 545 and 696: latest done_at first
DoneKey(t) == <<0 - (IF t.done_at.given THEN t.done_at.v ELSE DatetimeMin), 0>>
\* lines 701 and 705
EventKey(e) == <<e.when, 0>>

\* the key function a list is sorted by
KeyOf(by, item) ==
    IF by = "open" THEN OpenKey(item)
    ELSE IF by = "done" THEN DoneKey(item)
    ELSE EventKey(item)

SortedBy(items, by) ==
    LET pairs == [x \in DOMAIN items |-> [key |-> KeyOf(by, items[x]), item |-> items[x]]]
        sorted == SortPairs(pairs)
    IN  [x \in DOMAIN sorted |-> sorted[x].item]

OpenTodos(d, member) ==
    SortedBy(SelectSeq(d.todos, LAMBDA t : ~t.deleted /\ ~t.done
                                            /\ todo_is_relevant(t, member)), "open")

DoneTodos(d, member) ==
    SortedBy(SelectSeq(d.todos, LAMBDA t : ~t.deleted /\ t.done
                                            /\ todo_is_relevant(t, member)), "done")

FirstForty(items) == SubSeq(items, 1, Min(40, Len(items)))

\* lines 508-531: the todos /todos lists
todos_cmd(d, member) == FirstForty(OpenTodos(d, member))

\* lines 535-553: the todos /oldtodos lists
oldtodos_cmd(d, member) == FirstForty(DoneTodos(d, member))

\* lines 679-705
dash_filter(d, member, tab, t) ==
    IF tab = "todos_open" THEN OpenTodos(d, member)
    ELSE IF tab = "todos_done" THEN DoneTodos(d, member)
    ELSE IF tab = "events_active"
    THEN SortedBy(SelectSeq(d.events, LAMBDA e : ~e.cancelled /\ e.when >= t), "when")
    ELSE SortedBy(d.events, "when")

Next ==
    \/ TickLoad
    \/ SendOk
    \/ SendFail
    \/ TickSave
    \/ \E o \in SaveFailures : TickSaveFail(o)
    \/ Crash
    \/ \E t \in ClockPoints : Advance(t)
    \/ \E inp \in TerminInputs, o \in SaveOutcomes : termin_cmd(inp, o)
    \/ \E inp \in PTerminInputs, o \in SaveOutcomes : ptermin_cmd(inp, o)
    \/ \E id \in 1..MaxEvents, o \in SaveOutcomes : termin_absagen_cmd(id, o)
    \/ \E id \in 1..MaxEvents, inp \in EditInputs, o \in SaveOutcomes :
          termin_edit_cmd(id, inp, o)

Spec == Init /\ [][Next]_vars

----------------------------------------------------------------------------
(* Vocabulary of the properties *)

\* the sends one reminder consists of
Entries(ev, m) ==
    {[id |-> ev.id, when |-> ev.when, m |-> m, uid |-> u] : u \in Range(Recipients(ev))}

\* when - m minutes <= t < when + 24h
InWindow(t, when, m) == t >= when - m /\ t < when + 24 * 60

\* offset m of event ev is due at instant t
DueAt(ev, m, t) ==
    /\ ~ev.cancelled
    /\ m \in Range(ev.reminders)
    /\ m \notin ev.sent
    /\ InWindow(t, ev.when, m)

\* the sends a tick owes for the snapshot it loaded
DueEntries ==
    UNION {UNION {Entries(loaded.events[x], m) :
                    m \in {r \in Range(loaded.events[x].reminders) :
                             DueAt(loaded.events[x], r, n)}} :
             x \in DOMAIN loaded.events}

InTick == pc # "sleep"
LoopDone == pc = "save"
Slots == DOMAIN loaded.events

\* C1: in every persisted snapshot, and in the snapshot a tick works on, every
\* event's sent set is a subset of its reminders, whatever the interleaving of
\* creation, edit, cancel and ticks
C1_SentWithinReminders ==
    /\ \A x \in DOMAIN Persisted.events :
         Persisted.events[x].sent \subseteq Range(Persisted.events[x].reminders)
    /\ \A x \in DOMAIN data.events :
         data.events[x].sent \subseteq Range(data.events[x].reminders)

\* an edited event (reminders replaced by "10") whose new offset was delivered
\* and recorded
C1_Witness ==
    \E x \in DOMAIN Persisted.events :
        /\ Persisted.events[x].reminders = <<10>>
        /\ Persisted.events[x].sent = {10}

\* C2: a tick sends offset m of an event exactly when the event is not
\* cancelled, m is in reminders and not in sent, and
\* when - m minutes <= n < when + 24h; once the sends of m returned m is in
\* sent; nothing is sent before when - m or with n at or after when + 24h
C2_DeliveryRule ==
    /\ pc = "send" =>
         LET ev == data.events[i] IN
         /\ ~ev.cancelled
         /\ ev.reminders[j] \notin ev.sent
         /\ InWindow(n, ev.when, ev.reminders[j])
    /\ InTick =>
         /\ now >= n
         /\ tickLog \subseteq DueEntries
         /\ \A e \in tickLog : now >= e.when - e.m /\ n < e.when + 24 * 60
         /\ \A x \in Slots : \A m \in Range(loaded.events[x].reminders) :
              ( /\ Entries(loaded.events[x], m) \subseteq tickLog
                /\ data.events[x].when = loaded.events[x].when )
              => m \in data.events[x].sent
    /\ LoopDone => tickLog = DueEntries

\* a tick has finished its loop, sent one offset and left another, not yet
\* due, unsent
C2_Witness ==
    /\ LoopDone
    /\ tickLog # {}
    /\ \E x \in Slots : \E m \in Range(loaded.events[x].reminders) :
         /\ ~loaded.events[x].cancelled
         /\ m \notin loaded.events[x].sent
         /\ ~InWindow(n, loaded.events[x].when, m)

Period(recurrence) == IF recurrence = "daily" THEN 24 * 60 ELSE 7 * 24 * 60

\* C3: a tick with n >= when for a daily or weekly event that is not cancelled
\* leaves it with when one period (24h, 7 days) later than the when it loaded,
\* however far n is past it, with sent empty and cancelled false; that is what
\* the tick's save persists
C3_RolloverOnePeriod ==
    /\ [](LoopDone =>
            \A x \in Slots :
                ( /\ ~loaded.events[x].cancelled
                  /\ loaded.events[x].recurrence \in {"daily", "weekly"}
                  /\ n >= loaded.events[x].when )
                => /\ data.events[x].when
                        = loaded.events[x].when + Period(loaded.events[x].recurrence)
                   /\ data.events[x].sent = {}
                   /\ ~data.events[x].cancelled)
    /\ [][(LoopDone /\ last' = "ok") => Persisted'.events = data.events]_vars

\* a weekly event loaded more than two periods late has been moved by one period
C3_Witness ==
    /\ LoopDone
    /\ \E x \in Slots :
         /\ loaded.events[x].recurrence = "weekly"
         /\ ~loaded.events[x].cancelled
         /\ n >= loaded.events[x].when + 2 * Period("weekly")
         /\ data.events[x].when = loaded.events[x].when + Period("weekly")

\* C4: a tick leaves the when of a recurrence-none event alone, cancels the
\* event when n >= when and never cancels it while n < when
C4_NoneIsCancelledAtWhen ==
    /\ InTick =>
         \A x \in Slots :
             (~loaded.events[x].cancelled /\ loaded.events[x].recurrence = "none")
             => /\ data.events[x].when = loaded.events[x].when
                /\ n < loaded.events[x].when => ~data.events[x].cancelled
    /\ LoopDone =>
         \A x \in Slots :
             ( /\ ~loaded.events[x].cancelled
               /\ loaded.events[x].recurrence = "none"
               /\ n >= loaded.events[x].when )
             => data.events[x].cancelled

\* a tick at n >= when has cancelled a recurrence-none event
C4_Witness ==
    /\ LoopDone
    /\ \E x \in Slots :
         /\ loaded.events[x].recurrence = "none"
         /\ ~loaded.events[x].cancelled
         /\ n >= loaded.events[x].when
         /\ data.events[x].cancelled

\* C5: a tick sends nothing for an event that is cancelled in the snapshot it
\* loaded and leaves every field of it as loaded, whatever n is
C5_CancelledIsUntouched ==
    InTick =>
        \A x \in Slots :
            loaded.events[x].cancelled
            => /\ data.events[x] = loaded.events[x]
               /\ \A e \in tickLog : e.id # loaded.events[x].id

\* a tick has finished its loop over a cancelled event that has an unsent
\* offset inside its window
C5_Witness ==
    /\ LoopDone
    /\ \E x \in Slots : \E m \in Range(loaded.events[x].reminders) :
         /\ loaded.events[x].cancelled
         /\ m \notin loaded.events[x].sent
         /\ InWindow(n, loaded.events[x].when, m)

\* C6: a tick that directly follows a completed tick, with the same now and no
\* command in between, repeats no send of that tick
C6_NoDuplicateInSecondTick == tickLog \cap prevLog = {}

\* the second of two such ticks has finished its loop; both sent something
C6_Witness == LoopDone /\ prevLog # {} /\ tickLog # {}

StillDue(e) ==
    \E x \in Slots :
        /\ loaded.events[x].id = e.id
        /\ loaded.events[x].when = e.when
        /\ ~loaded.events[x].cancelled
        /\ e.m \in Range(loaded.events[x].reminders)
        /\ e.uid \in Range(Recipients(loaded.events[x]))
        /\ InWindow(n, loaded.events[x].when, e.m)

\* C7: whatever crashes, every offset the persisted snapshot records in sent
\* was sent to every recipient; and a send made by a tick that crashed before
\* its save is made again by the first tick that finishes its loop after the
\* restart, if it is still due then
C7_AtLeastOnce ==
    /\ \A x \in DOMAIN Persisted.events : \A m \in Persisted.events[x].sent :
         Entries(Persisted.events[x], m) \subseteq delivered
    /\ LoopDone => \A e \in lost : StillDue(e) => e \in tickLog

\* after a crash a tick has sent again what the crashed tick had sent
C7_Witness == LoopDone /\ lost \cap tickLog # {}

\* C8: when one send of a tick raises, every other send the tick owes is still
\* made in that tick, and the other events are still processed and persisted
C8_SendFailureIsContained ==
    [][last' = "send_failed" =>
         /\ (DueEntries \ {Sending}) \subseteq tickLog
         /\ \A x \in Slots \ {i} :
              (~loaded.events[x].cancelled /\ n >= loaded.events[x].when)
              => /\ x \in DOMAIN Persisted'.events
                 /\ \/ Persisted'.events[x].cancelled
                    \/ Persisted'.events[x].when > loaded.events[x].when]_vars

\* C9 as stated: after a failed save the loop is asleep at line 227, from
\* where the next tick starts, and that tick starts from the events the failed
\* tick held in memory
C9_MemoryIsRetained ==
    /\ last = "save_failed" => pc = "sleep"
    /\ (unsaved.set /\ InTick) => loaded.events = unsaved.events

\* C9: after a failed save the loop is asleep at line 227, from where the next
\* tick starts, and that tick starts from what load_data reads from data.json,
\* not from the events the failed tick held in memory
C9_NextTickReloads ==
    /\ last = "save_failed" => pc = "sleep"
    /\ (unsaved.set /\ InTick) => loaded = Persisted

\* the tick after a failed save has loaded a snapshot whose events are not
\* the ones the failed tick held in memory
C9_Witness == unsaved.set /\ InTick /\ loaded.events # unsaved.events

----------------------------------------------------------------------------
(* load_data on its own: one call on each content of data.json *)

\* the values the keys of a JSON object in data.json are given here
StoredValues ==
    [events        : {<<>>, <<NewEvent(1, "T", W1, <<30, 0>>, "none", ChannelTarget)>>},
     next_event_id : {1, 2},
     todos         : {<<>>, <<NewTodo(1, "T", "public", None, None, 1, W1 - 60, None)>>},
     next_todo_id  : {1, 2}]

\* a key the object does not hold has no value: doc carries the default there
FileInputs ==
    {[kind |-> c, keys |-> {}, doc |-> Default] :
        c \in {"missing", "unreadable", "invalid", "nonobject"}}
    \cup UNION {{[kind |-> "object", keys |-> ks, doc |-> d] :
                    d \in {v \in StoredValues :
                             \A key \in Keys \ ks : v[key] = Default[key]}} :
                  ks \in SUBSET Keys}

InitLoad ==
    /\ file \in FileInputs
    /\ ret = NotCalled
    /\ arg = NoArg
    /\ req = NoRequest
    /\ reply = NoReply
    /\ issued = NothingIssued
    /\ softDeleted = {}
    /\ now = W1 - 60
    /\ pc = "sleep"
    /\ data = Default
    /\ loaded = Default
    /\ n = 0
    /\ changed = FALSE
    /\ i = 1 /\ j = 1 /\ k = 1
    /\ tickLog = {}
    /\ prevLog = {}
    /\ quiet = FALSE
    /\ last = "none"
    /\ delivered = {}
    /\ lost = {}
    /\ unsaved = NoUnsaved
    /\ cmds = 0
    /\ faults = 0

\* one call of load_data
LoadCall ==
    /\ ~ret.called
    /\ ret' = [called |-> TRUE, raised |-> load_data(file).raised,
               data |-> load_data(file).data]
    /\ UNCHANGED <<now, file, pc, tickLocals, history, budget, trace>>

NextLoad == LoadCall

SpecLoad == InitLoad /\ [][NextLoad]_vars

\* C10: whatever data.json holds, load_data raises nothing and returns the four
\* keys: the defaults when the file is missing, unreadable or not a JSON
\* object, and otherwise the stored value of each key the object holds and the
\* default of each key it lacks
C10_LoadNeverRaises ==
    ret.called =>
        /\ ~ret.raised
        /\ DOMAIN ret.data = Keys
        /\ file.kind # "object" => ret.data = Default
        /\ file.kind = "object" =>
             \A key \in Keys :
                 ret.data[key] = IF key \in file.keys THEN file.doc[key]
                                 ELSE Default[key]

\* C11: every create request answers with an id that no earlier create request
\* of the same kind answered with, and next_event_id and next_todo_id on
\* data.json never decrease, whatever commands and ticks interleave
C11_IdsNeverReused ==
    [][ /\ (cmds' = cmds + 1 /\ reply'.kind = "created")
           => reply'.id \notin issued[req'.kind]
        /\ Persisted'.next_event_id >= Persisted.next_event_id
        /\ Persisted'.next_todo_id >= Persisted.next_todo_id ]_vars

----------------------------------------------------------------------------
(* todo_is_relevant and can_modify_todo on their own: one call on each todo *)
(* the commands can store and each member                                   *)

UserIds == {1, 2, 3}
RoleIds == {10, 20}
Scopes == {"public", "private", "user", "role"}

\* the scope and the assignee of the todos the commands store
Assignments ==
    {[scope |-> sc, au |-> None, ar |-> None] : sc \in {"public", "private"}}
    \cup {[scope |-> "user", au |-> Some(u), ar |-> None] : u \in UserIds \ {3}}
    \cup {[scope |-> "role", au |-> None, ar |-> Some(r)] : r \in RoleIds}

StoredTodos ==
    {[NewTodo(1, "T", a.scope, a.au, a.ar, c, W1 - 60, None) EXCEPT !.deleted = del] :
        a \in Assignments, c \in UserIds, del \in BOOLEAN}

Members == {Member(u, rs, el) : u \in UserIds, rs \in SUBSET RoleIds, el \in BOOLEAN}

InitAuth ==
    /\ arg \in {[fn |-> "auth", todo |-> t, member |-> m] : t \in StoredTodos, m \in Members}
    /\ ret = NotCalled
    /\ file = NoFile
    /\ now = W1 - 60
    /\ pc = "sleep"
    /\ data = Default
    /\ loaded = Default
    /\ n = 0
    /\ changed = FALSE
    /\ i = 1 /\ j = 1 /\ k = 1
    /\ tickLog = {}
    /\ prevLog = {}
    /\ quiet = FALSE
    /\ last = "none"
    /\ delivered = {}
    /\ lost = {}
    /\ unsaved = NoUnsaved
    /\ cmds = 0
    /\ faults = 0
    /\ req = NoRequest
    /\ reply = NoReply
    /\ issued = NothingIssued
    /\ softDeleted = {}

\* one call of todo_is_relevant
CallRelevant ==
    /\ ~ret.called
    /\ ret' = [called |-> TRUE, fn |-> "todo_is_relevant",
               value |-> todo_is_relevant(arg.todo, arg.member)]
    /\ UNCHANGED <<now, file, pc, tickLocals, history, budget, trace>>

\* one call of can_modify_todo
CallCanModify ==
    /\ ~ret.called
    /\ ret' = [called |-> TRUE, fn |-> "can_modify_todo",
               value |-> can_modify_todo(arg.todo, arg.member)]
    /\ UNCHANGED <<now, file, pc, tickLocals, history, budget, trace>>

NextAuth == CallRelevant \/ CallCanModify

SpecAuth == InitAuth /\ [][NextAuth]_vars

IsCreator(todo, actor) == todo.created_by = actor.id
IsAssignedUser(todo, actor) == todo.assigned_user_id = Some(actor.id)
HoldsAssignedRole(todo, actor) == \E r \in actor.roles : todo.assigned_role_id = Some(r)

\* C12: todo_is_relevant is false for a deleted todo, true for a public one,
\* true for the creator only of a private one, for the assigned user or the
\* creator of a user-scoped one, for the holders of the assigned role or the
\* creator of a role-scoped one; manage_guild makes no difference
C12_RelevantIsReference ==
    (ret.called /\ ret.fn = "todo_is_relevant") =>
        /\ ret.value =
             ( /\ ~arg.todo.deleted
               /\ \/ arg.todo.scope = "public"
                  \/ arg.todo.scope = "private" /\ IsCreator(arg.todo, arg.member)
                  \/ /\ arg.todo.scope = "user"
                     /\ IsAssignedUser(arg.todo, arg.member) \/ IsCreator(arg.todo, arg.member)
                  \/ /\ arg.todo.scope = "role"
                     /\ HoldsAssignedRole(arg.todo, arg.member) \/ IsCreator(arg.todo, arg.member) )
        /\ ret.value = todo_is_relevant(arg.todo,
                                        [arg.member EXCEPT !.manage_guild = ~@])

\* a holder of the assigned role who is not the creator sees a role-scoped todo
C12_Witness ==
    /\ ret.called /\ ret.fn = "todo_is_relevant"
    /\ arg.todo.scope = "role"
    /\ ~IsCreator(arg.todo, arg.member)
    /\ HoldsAssignedRole(arg.todo, arg.member)
    /\ ret.value

\* C13: can_modify_todo is true exactly for the creator, for the assigned user
\* of a user-scoped todo, and for a member with manage_guild; a member who only
\* holds the assigned role of a role-scoped todo sees it and cannot modify it
C13_CanModifyIsReference ==
    (ret.called /\ ret.fn = "can_modify_todo") =>
        /\ ret.value =
             ( \/ IsCreator(arg.todo, arg.member)
               \/ arg.todo.scope = "user" /\ IsAssignedUser(arg.todo, arg.member)
               \/ arg.member.manage_guild )
        /\ ( /\ arg.todo.scope = "role"
             /\ ~arg.todo.deleted
             /\ HoldsAssignedRole(arg.todo, arg.member)
             /\ ~IsCreator(arg.todo, arg.member)
             /\ ~arg.member.manage_guild )
           => (~ret.value /\ todo_is_relevant(arg.todo, arg.member))

\* a holder of the assigned role, neither creator nor elevated, may not modify
C13_Witness ==
    /\ ret.called /\ ret.fn = "can_modify_todo"
    /\ arg.todo.scope = "role"
    /\ ~arg.todo.deleted
    /\ HoldsAssignedRole(arg.todo, arg.member)
    /\ ~IsCreator(arg.todo, arg.member)
    /\ ~arg.member.manage_guild
    /\ ~ret.value


\* C34: a member without manage_guild for whom can_modify_todo is true on a
\* todo that is not deleted and has one of the four scopes also satisfies
\* todo_is_relevant on it: whoever may modify a todo they are not shown has
\* manage_guild
C34_ModifiableIsVisible ==
    ( /\ ret.called /\ ret.fn = "can_modify_todo" /\ ret.value
      /\ ~arg.todo.deleted
      /\ arg.todo.scope \in Scopes )
    => (todo_is_relevant(arg.todo, arg.member) \/ arg.member.manage_guild)

\* the creator of a role-scoped todo, who neither holds the role nor has
\* manage_guild, may modify it and is shown it
C34_Witness ==
    /\ ret.called /\ ret.fn = "can_modify_todo" /\ ret.value
    /\ ~arg.todo.deleted
    /\ arg.todo.scope = "role"
    /\ IsCreator(arg.todo, arg.member)
    /\ ~HoldsAssignedRole(arg.todo, arg.member)
    /\ ~arg.member.manage_guild
    /\ todo_is_relevant(arg.todo, arg.member)
----------------------------------------------------------------------------
(* The command handlers with all their answers: requests with valid and    *)
(* invalid arguments by several members, next to a scheduler that has one  *)
(* reminder to send.  The clock stands still and nothing fails.             *)

Creator == Member(1, {}, FALSE)
Holder == Member(2, {10}, FALSE)
Admin == Member(3, {}, TRUE)
RequestActors ==
    {Actor(Creator, TRUE), Actor(Holder, TRUE), Actor(Admin, TRUE), Actor(Creator, FALSE)}

\* texts strptime cannot parse
BadDate == 0 - 5
BadTime == MinutesPerDay + 99

RemNegative == <<Part(30, ""), Part(0 - 5, "")>>    \* "30,-5"
RemGarbled == <<Part(0, "?")>>                      \* "x"

TodoInput(titel, privat, user, rolle, datum, uhrzeit) ==
    [titel |-> titel, privat |-> privat, user |-> user, rolle |-> rolle,
     faellig_datum |-> datum, faellig_uhrzeit |-> uhrzeit]

TodoAddInputs ==
    {TodoInput("T", FALSE, None, None, None, None),
     TodoInput("T", FALSE, Some(2), None, Some(D1), None),
     TodoInput("T", FALSE, None, Some(10), None, None),
     TodoInput("T", TRUE, Some(2), None, None, None),
     TodoInput(" ", FALSE, None, None, None, None),
     TodoInput("T", FALSE, None, None, Some(BadDate), None),
     TodoInput("T", FALSE, None, None, None, Some(BadTime)),
     TodoInput("T", FALSE, Some(2), Some(10), None, None)}

DateAndTime(datum, uhrzeit) == [datum |-> datum, uhrzeit |-> uhrzeit]
Picked(user, role) == [user |-> user, role |-> role]

\* AddTodoModal: the submitting member, the owner of the dashboard, the
\* dropdown choice and the text inputs
TodoModalInputs ==
    {[actor |-> Actor(Creator, TRUE), owner |-> 1, picked |-> pk,
      inp |-> [titel |-> ti, scope |-> sc, due |-> du]] :
        pk \in {Picked(None, None), Picked(Some(2), None)},
        ti \in {"T"}, sc \in {"user", "role", "other"}, du \in {None}}
    \cup {[actor |-> Actor(Creator, TRUE), owner |-> 1, picked |-> Picked(None, None),
           inp |-> [titel |-> " ", scope |-> "private", due |-> None]],
          [actor |-> Actor(Creator, TRUE), owner |-> 1, picked |-> Picked(None, None),
           inp |-> [titel |-> "T", scope |-> "public",
                    due |-> Some(DateAndTime(BadDate, T1))]],
          [actor |-> Actor(Holder, TRUE), owner |-> 1, picked |-> Picked(None, None),
           inp |-> [titel |-> "T", scope |-> "public", due |-> None]]}

TodoEdit(titel, privat, user, rolle, datum, uhrzeit) ==
    [titel |-> titel, beschreibung |-> None, privat |-> privat, user |-> user,
     rolle |-> rolle, faellig_datum |-> datum, faellig_uhrzeit |-> uhrzeit]

TodoEditInputs ==
    {TodoEdit(Some("U"), None, None, None, None, None),
     TodoEdit(Some(" "), None, None, None, None, None),
     TodoEdit(None, Some(TRUE), None, None, None, None),
     TodoEdit(None, Some(FALSE), None, None, None, None),
     TodoEdit(None, None, Some(2), None, None, None),
     TodoEdit(None, None, None, Some(20), None, None),
     TodoEdit(None, None, Some(2), Some(20), None, None),
     TodoEdit(None, None, None, None, Some(EmptyText), None),
     TodoEdit(None, None, None, None, Some(D1 + 1), None),
     TodoEdit(Some("U"), Some(TRUE), None, None, Some(BadDate), None),
     TodoEdit(Some("U"), None, None, None, None, Some(BadTime)),
     [TodoEdit(None, None, None, None, None, None) EXCEPT !.beschreibung = Some("D")]}

TodoIds == 1..MaxTodos

Views ==
    {DashboardView(m, tab, sel) :
        m \in {Creator, Holder, Admin}, tab \in {"todos_open", "events_all"}, sel \in {0, 1}}

\* /termin: a valid event, a blank title, an unparsable date, a negative
\* offset, a reminder text int() cannot parse
TerminRequests ==
    {EventInput(D1, Rem30_0, "none"),
     [EventInput(D1, Rem30_0, "none") EXCEPT !.titel = " "],
     EventInput(BadDate, Rem30_0, "none"),
     [EventInput(D1, Rem30_0, "none") EXCEPT !.uhrzeit = BadTime],
     EventInput(D1, RemNegative, "none"),
     EventInput(D1, RemGarbled, "none")}

PTerminRequests ==
    PTerminInputs
    \cup {[x \in {"user"} |-> 1] @@ [x \in {"persons"} |-> {2}]
            @@ EventInput(BadDate, Rem30_0, "none")}

\* /termin_edit: also a blank title, the date and the reminders the first
\* event already has, and an unparsable date or time next to other fields
EditRequests ==
    EditInputs
    \cup {EditInput(Some(D1), None), EditInput(None, Some(Rem1d_0))}
    \cup {[EditInput(None, None) EXCEPT !.titel = Some(" ")],
          [EditInput(None, None) EXCEPT !.titel = Some("B")],
          [EditInput(None, None) EXCEPT !.wiederholung = Some("weekly")],
          [EditInput(None, None) EXCEPT !.uhrzeit = Some(T1 + 1)],
          EditInput(None, Some(RemNegative)),
          EditInput(None, Some(RemGarbled)),
          [EditInput(Some(BadDate), Some(Rem10)) EXCEPT !.titel = Some("B"),
                                                        !.wiederholung = Some("weekly")],
          [EditInput(None, None) EXCEPT !.uhrzeit = Some(BadTime), !.titel = Some("B")]}

\* AddEventModal: the submitting member, the owner of the dashboard, the
\* dropdown choice and the text inputs
EventModalInputs ==
    {[actor |-> Actor(Creator, TRUE), owner |-> 1, picked |-> {2},
      inp |-> [titel |-> "A", dt |-> Some(DateAndTime(D1, T1)), rems |-> <<>>,
               rec |-> "weekly", target |-> "dm"]],
     [actor |-> Actor(Creator, TRUE), owner |-> 1, picked |-> {},
      inp |-> [titel |-> " ", dt |-> Some(DateAndTime(D1, T1)), rems |-> RemNegative,
               rec |-> "other", target |-> "channel"]],
     [actor |-> Actor(Creator, TRUE), owner |-> 1, picked |-> {},
      inp |-> [titel |-> "A", dt |-> None, rems |-> <<>>,
               rec |-> "none", target |-> "channel"]],
     [actor |-> Actor(Creator, TRUE), owner |-> 1, picked |-> {},
      inp |-> [titel |-> "A", dt |-> Some(DateAndTime(D1, BadTime)), rems |-> <<>>,
               rec |-> "none", target |-> "channel"]],
     [actor |-> Actor(Creator, TRUE), owner |-> 1, picked |-> {},
      inp |-> [titel |-> "A", dt |-> Some(DateAndTime(D1, T1)), rems |-> RemGarbled,
               rec |-> "none", target |-> "channel"]],
     [actor |-> Actor(Holder, TRUE), owner |-> 1, picked |-> {},
      inp |-> [titel |-> "A", dt |-> Some(DateAndTime(D1, T1)), rems |-> <<>>,
               rec |-> "none", target |-> "channel"]]}

\* data.json after /termin has stored a daily event whose 1d reminder is due
FirstEvent == EventInput(D1, Rem1d_0, "daily")

InitRequests ==
    /\ file = save_data(NoFile, WithNewEvent(Default, FirstEvent,
                                             parse_reminders(FirstEvent.erinnerung).list,
                                             ChannelTarget), "ok")
    /\ issued = [events |-> {1}, todos |-> {}]
    /\ now = W1 - 60
    /\ pc = "sleep"
    /\ data = Default
    /\ loaded = Default
    /\ n = 0
    /\ changed = FALSE
    /\ i = 1 /\ j = 1 /\ k = 1
    /\ tickLog = {}
    /\ prevLog = {}
    /\ quiet = FALSE
    /\ last = "none"
    /\ delivered = {}
    /\ lost = {}
    /\ unsaved = NoUnsaved
    /\ cmds = 0
    /\ faults = 0
    /\ ret = NotCalled
    /\ arg = NoArg
    /\ req = [cmd |-> "termin", kind |-> "events", inp |-> FirstEvent]
    /\ reply = Created(1)
    /\ softDeleted = {}

NextRequests ==
    \/ TickLoad
    \/ SendOk
    \/ TickSave
    \/ \E inp \in TerminRequests : termin_cmd(inp, "ok")
    \/ \E inp \in PTerminRequests : ptermin_cmd(inp, "ok")
    \/ \E id \in 1..MaxEvents : termin_absagen_cmd(id, "ok")
    \/ \E id \in 1..MaxEvents : \E inp \in EditRequests : termin_edit_cmd(id, inp, "ok")
    \/ \E view \in Views : event_cancel_btn(view, "ok")
    \/ \E m \in EventModalInputs :
          AddEventModal_on_submit(m.actor, m.owner, m.picked, m.inp, "ok")
    \/ \E inp \in TodoAddInputs : todo_add_cmd(Actor(Creator, TRUE), inp, "ok")
    \/ \E m \in TodoModalInputs :
          AddTodoModal_on_submit(m.actor, m.owner, m.picked, m.inp, "ok")
    \/ \E a \in RequestActors : \E id \in TodoIds : todo_done_cmd(a, id, "ok")
    \/ \E a \in RequestActors : \E id \in TodoIds : todo_undo_cmd(a, id, "ok")
    \/ \E a \in RequestActors : \E id \in TodoIds : todo_delete_cmd(a, id, "ok")
    \/ \E a \in RequestActors : \E inp \in TodoEditInputs : todo_edit_cmd(a, 1, inp, "ok")
    \/ \E view \in Views : todo_done_btn(view, "ok")
    \/ \E view \in Views : todo_undo_btn(view, "ok")
    \/ \E view \in Views : todo_del_btn(view, "ok")

SpecRequests == InitRequests /\ [][NextRequests]_vars

TodoMutators ==
    {"todo_done", "todo_undo", "todo_delete", "todo_edit",
     "todo_done_btn", "todo_undo_btn", "todo_del_btn"}

\* a request to change the todo with some id, sent from inside the guild and,
\* for a button, with a todo selected on a todo tab, has been handled
TodoRequestHandled ==
    /\ cmds' = cmds + 1
    /\ req'.cmd \in TodoMutators
    /\ req'.actor.in_guild
    /\ req'.cmd \in {"todo_done_btn", "todo_undo_btn", "todo_del_btn"}
         => (req'.view.tab \in TodoTabs /\ req'.view.selected_id # 0)

\* the ids of the todos some list or dashboard tab shows to some member
ListedIds ==
    UNION {{l[x].id : x \in DOMAIN l} :
             l \in UNION {{todos_cmd(Persisted, m), oldtodos_cmd(Persisted, m),
                           dash_filter(Persisted, m, "todos_open", now),
                           dash_filter(Persisted, m, "todos_done", now)} :
                            m \in {Creator, Holder, Admin}}}

\* C14: once a delete request has deleted a todo, its record stays in todos on
\* data.json with deleted set, no list and no dashboard tab shows it, and
\* every later request to change it answers not-found and leaves data.json as
\* it is
C14_SoftDeletedStaysDeleted ==
    /\ [](\A id \in softDeleted :
            /\ \E x \in DOMAIN Persisted.todos :
                 Persisted.todos[x].id = id /\ Persisted.todos[x].deleted
            /\ id \notin ListedIds)
    /\ [][(TodoRequestHandled /\ req'.id \in softDeleted)
            => (reply'.kind = "not_found" /\ file' = file)]_vars

\* a done, undo, delete or edit request has been handled whose target is the
\* record at position x of todos and whose actor may (allowed) or may not
\* modify it
RequestOn(x, allowed) ==
    /\ cmds' = cmds + 1
    /\ req'.cmd \in TodoMutators
    /\ x # 0
    /\ find_todo(Persisted, req'.id) = x
    /\ can_modify_todo(Persisted.todos[x], req'.actor.member) = allowed

\* the request half of C15: a request by an actor who may not modify its
\* target leaves data.json as it is
UnauthorisedLeavesSnapshot ==
    [][\A x \in DOMAIN Persisted.todos : RequestOn(x, FALSE) => file' = file]_vars

\* C15: the record of a todo in data.json changes only in the step of a
\* request on it whose actor satisfies can_modify_todo, and a request by an
\* actor who does not leaves data.json as it is
C15_ChangedOnlyByAuthorised ==
    /\ UnauthorisedLeavesSnapshot
    /\ [][\A x \in DOMAIN Persisted.todos :
            \/ RequestOn(x, TRUE)
            \/ x \notin DOMAIN Persisted'.todos
            \/ Persisted'.todos[x] = Persisted.todos[x]]_vars

\* a stored todo whose scope and assignee fields agree
ScopeConsistent(todo) ==
    /\ todo.scope \in Scopes
    /\ todo.scope = "user" => (todo.assigned_user_id.given /\ ~todo.assigned_role_id.given)
    /\ todo.scope = "role" => (todo.assigned_role_id.given /\ ~todo.assigned_user_id.given)
    /\ todo.scope \in {"public", "private"}
         => (~todo.assigned_user_id.given /\ ~todo.assigned_role_id.given)

\* C16: every todo on data.json has one of the four scopes; a user todo has an
\* assigned user and no assigned role, a role todo has an assigned role and no
\* assigned user, a public or private todo has neither
C16_ScopeMatchesAssignee ==
    \A x \in DOMAIN Persisted.todos : ScopeConsistent(Persisted.todos[x])

\* /todo_edit has moved a todo that was created for a user to a role
C16_Witness ==
    /\ req.cmd = "todo_edit" /\ reply.kind = "ok" /\ req.inp.rolle.given
    /\ \E x \in DOMAIN Persisted.todos :
         /\ Persisted.todos[x].id = req.id
         /\ Persisted.todos[x].scope = "role"
         /\ Persisted.todos[x].created_by # req.actor.member.id
         /\ ~req.actor.member.manage_guild

----------------------------------------------------------------------------
(* Event edits, under Spec *)

\* /termin_edit has answered that the event was updated
EventEdited == cmds' = cmds + 1 /\ req'.cmd = "termin_edit" /\ reply'.kind = "ok"

\* C17: a /termin_edit that succeeds and changes the date, the time or the
\* reminders of an event leaves it on data.json with sent empty; an offset in
\* sent on data.json was delivered for the date the event has there, so no
\* offset is held back for the new date by what was sent for the old one
C17_EditResetsSent ==
    /\ [][EventEdited =>
            LET x == FirstActive(Persisted.events, req'.id)
            IN  (\/ Persisted'.events[x].when # Persisted.events[x].when
                 \/ Persisted'.events[x].reminders # Persisted.events[x].reminders)
                => Persisted'.events[x].sent = {}]_vars
    /\ [](\A x \in DOMAIN Persisted.events : \A m \in Persisted.events[x].sent :
            \E e \in delivered : /\ e.id = Persisted.events[x].id /\ e.m = m
                                 /\ e.when = Persisted.events[x].when)

\* an offset of an event that does not recur was delivered, the event was
\* moved to another date, and a tick has delivered the same offset again for
\* the new date
C17_Witness ==
    /\ req.cmd = "termin_edit" /\ reply.kind = "ok"
    /\ req.inp.datum.given /\ ~req.inp.wiederholung.given
    /\ \E x \in DOMAIN Persisted.events : \E e \in tickLog : \E f \in delivered :
         /\ Persisted.events[x].id = req.id
         /\ Persisted.events[x].recurrence = "none"
         /\ e.id = req.id /\ e.when = Persisted.events[x].when
         /\ f.id = e.id /\ f.m = e.m /\ f.uid = e.uid /\ f.when # e.when

----------------------------------------------------------------------------
(* Validation of requests, under SpecRequests *)

BadDateText(d) == ~parse_date_time(d, T1).ok
BadTimeText(t) == ~parse_date_time(D1, t).ok

\* a date given to a todo request: the empty text stands for no date
DateGiven(x) == x.given /\ x.v # EmptyText

\* the request carries a date or a time that strptime cannot parse
Unparsable(request) ==
    IF request.cmd \in {"termin", "ptermin"}
    THEN BadDateText(request.inp.datum) \/ BadTimeText(request.inp.uhrzeit)
    ELSE IF request.cmd = "termin_edit"
    THEN \/ request.inp.datum.given /\ BadDateText(request.inp.datum.v)
         \/ request.inp.uhrzeit.given /\ BadTimeText(request.inp.uhrzeit.v)
    ELSE IF request.cmd \in {"todo_add", "todo_edit"}
    THEN \/ DateGiven(request.inp.faellig_datum) /\ BadDateText(request.inp.faellig_datum.v)
         \/ request.inp.faellig_uhrzeit.given /\ BadTimeText(request.inp.faellig_uhrzeit.v)
    ELSE IF request.cmd = "AddEventModal"
    THEN \/ ~request.inp.dt.given
         \/ BadDateText(request.inp.dt.v.datum) \/ BadTimeText(request.inp.dt.v.uhrzeit)
    ELSE IF request.cmd = "AddTodoModal"
    THEN /\ request.inp.due.given
         /\ BadDateText(request.inp.due.v.datum) \/ BadTimeText(request.inp.due.v.uhrzeit)
    ELSE FALSE

\* the handler answered with an error and data.json is as it was
Rejected == reply'.kind \notin {"ok", "created"} /\ file' = file

\* C18: a create or edit request for an event or a todo whose date or time
\* cannot be parsed is answered with an error and leaves data.json unchanged:
\* nothing is added, no id is consumed, no other field of an edit is applied
C18_UnparsableIsRejected ==
    [][(cmds' = cmds + 1 /\ Unparsable(req')) => Rejected]_vars

\* a reminder text with a part that is a negative number of minutes
HasNegative(rem_str) ==
    \E x \in DOMAIN rem_str : RemPartOk(rem_str[x]) /\ RemPartMinutes(rem_str[x]) < 0

\* the request creates or edits an event and carries such a reminder text
NegativeOffset(request) ==
    IF request.cmd \in {"termin", "ptermin"} THEN HasNegative(request.inp.erinnerung)
    ELSE IF request.cmd = "termin_edit"
    THEN request.inp.erinnerung.given /\ HasNegative(request.inp.erinnerung.v)
    ELSE IF request.cmd = "AddEventModal" THEN HasNegative(request.inp.rems)
    ELSE FALSE

\* C19: a request to create or edit an event with a negative reminder offset
\* is answered with an error and no event is created or changed; the
\* reminders of every event on data.json are non-negative and pairwise
\* distinct
C19_NegativeOffsetIsRejected ==
    /\ [][(cmds' = cmds + 1 /\ NegativeOffset(req')) => Rejected]_vars
    /\ [](\A x \in DOMAIN Persisted.events :
            LET r == Persisted.events[x].reminders
            IN  /\ \A y \in DOMAIN r : r[y] >= 0
                /\ \A y, z \in DOMAIN r : y # z => r[y] # r[z])

\* the request creates an event or a todo and its title is empty after strip()
BlankTitle(request) ==
    /\ request.cmd \in {"termin", "ptermin", "AddEventModal", "todo_add", "AddTodoModal"}
    /\ Strip(request.inp.titel) = ""

\* every event and every todo on data.json has a title that is not empty
TitlesNonEmpty ==
    /\ \A x \in DOMAIN Persisted.events : Persisted.events[x].title # ""
    /\ \A x \in DOMAIN Persisted.todos : Persisted.todos[x].title # ""

\* C20: every event and every todo on data.json has a non-empty title: a
\* create request with an empty or blank title stores nothing, and an edit
\* never replaces a title by an empty one
C20_TitleNonEmpty ==
    /\ []TitlesNonEmpty
    /\ [][(cmds' = cmds + 1 /\ BlankTitle(req')) => Rejected]_vars
    /\ [][(cmds' = cmds + 1 /\ req'.cmd \in {"termin_edit", "todo_edit"} /\ TitlesNonEmpty)
            => TitlesNonEmpty']_vars

----------------------------------------------------------------------------
(* add_month alone, and the rollover of a monthly event, on every minute of *)
(* TimesOfDay of every day of MaxYears years from Epoch.year on             *)

Years == Epoch.year .. (Epoch.year + MaxYears - 1)
TimesOfDay == {0, 10 * 60, 23 * 60 + 59}

CalendarDates ==
    UNION {UNION {{DateTime(y, mo, d, 0, 0) + t : d \in 1..DaysInMonth(y, mo), t \in TimesOfDay}
                    : mo \in 1..12} : y \in Years}

\* how late after when the tick runs that rolls the event over
Lateness == {0, 1, timedelta_days(40)}

InitMonth ==
    /\ arg \in {[fn |-> "add_month", dt |-> dt] : dt \in CalendarDates}
    /\ ret = NotCalled
    /\ file = NoFile
    /\ now = W1 - 60
    /\ pc = "sleep"
    /\ data = Default
    /\ loaded = Default
    /\ n = 0
    /\ changed = FALSE
    /\ i = 1 /\ j = 1 /\ k = 1
    /\ tickLog = {}
    /\ prevLog = {}
    /\ quiet = FALSE
    /\ last = "none"
    /\ delivered = {}
    /\ lost = {}
    /\ unsaved = NoUnsaved
    /\ cmds = 0
    /\ faults = 0
    /\ req = NoRequest
    /\ reply = NoReply
    /\ issued = NothingIssued
    /\ softDeleted = {}

\* one call of add_month
CallAddMonth ==
    /\ ~ret.called
    /\ ret' = [called |-> TRUE, fn |-> "add_month", value |-> add_month(arg.dt)]
    /\ UNCHANGED <<now, file, pc, tickLocals, history, budget, trace>>

\* lines 212-219 applied to a monthly event with when = dt by a tick that
\* reads the clock at dt or later
CallRollOver ==
    /\ ~ret.called
    /\ \E late \in Lateness :
         ret' = [called |-> TRUE, fn |-> "RollOver",
                 value |-> RollOver(NewEvent(1, "A", arg.dt, <<0>>, "monthly", ChannelTarget),
                                    arg.dt + late).when]
    /\ UNCHANGED <<now, file, pc, tickLocals, history, budget, trace>>

\* the next tick at or after the new when rolls the event over again: arg
\* holds the when that tick loads, first the when the first tick loaded
CallRollOverAgain ==
    /\ ret.called
    /\ ret.fn \in {"RollOver", "RollOverAgain"}
    /\ Civil(ret.value).year \in Years
    /\ \E late \in Lateness :
         ret' = [called |-> TRUE, fn |-> "RollOverAgain",
                 value |-> RollOver(NewEvent(1, "A", ret.value, <<0>>, "monthly", ChannelTarget),
                                    ret.value + late).when,
                 first |-> IF ret.fn = "RollOver" THEN arg.dt ELSE ret.first]
    /\ arg' = [fn |-> "add_month", dt |-> ret.value]
    /\ UNCHANGED <<now, file, pc, tickLocals, history, budget, req, reply, issued, softDeleted>>

NextMonth == CallAddMonth \/ CallRollOver \/ CallRollOverAgain

SpecMonth == InitMonth /\ [][NextMonth]_vars

\* the date a month after dt, as the calendar has it: the same time of day in
\* the following month, on the day of dt or on the last day of that month
MonthLater(dt) ==
    LET c == Civil(dt)
        y == IF c.month = 12 THEN c.year + 1 ELSE c.year
        m == IF c.month = 12 THEN 1 ELSE c.month + 1
    IN  [year |-> y, month |-> m,
         day |-> IF c.day <= DaysInMonth(y, m) THEN c.day ELSE DaysInMonth(y, m),
         tod |-> c.tod]

\* C21: add_month(dt) is the same time of day in the following calendar month,
\* on day min(day of dt, last day of that month), also from December to
\* January and in leap years: 2024-01-31 gives 2024-02-29 and 2023-01-31 gives
\* 2023-02-28; the rollover of a monthly event sets when to exactly this value
C21_AddMonthClamps ==
    /\ ret.called => Civil(ret.value) = MonthLater(arg.dt)
    /\ (ret.called /\ arg.dt = DateTime(2024, 1, 31, 10, 0))
         => ret.value = DateTime(2024, 2, 29, 10, 0)
    /\ (ret.called /\ arg.dt = DateTime(2023, 1, 31, 10, 0))
         => ret.value = DateTime(2023, 2, 28, 10, 0)

\* a monthly event on 31 January of a leap year has been rolled over to 29
\* February
C21_Witness ==
    /\ ret.called /\ ret.fn = "RollOver"
    /\ Civil(arg.dt).year = 2024 /\ Civil(arg.dt).month = 1 /\ Civil(arg.dt).day = 31
    /\ Civil(ret.value).month = 2 /\ Civil(ret.value).day = 29

\* C36: the second and every later rollover of a monthly event applies
\* add_month to the when the rollover before it left: the day of the month is
\* the smaller of the day before and the last day of the new month, so it is
\* never greater than the day before nor than the day of the first when, and a
\* day clamped to 28 in February stays 28 in March
C36_ClampedDayStays ==
    (ret.called /\ ret.fn = "RollOverAgain") =>
        /\ ret.value = add_month(arg.dt)
        /\ Civil(ret.value).day = Min(Civil(arg.dt).day,
                                      DaysInMonth(Civil(ret.value).year, Civil(ret.value).month))
        /\ Civil(ret.value).day <= Civil(arg.dt).day
        /\ Civil(arg.dt).day <= Civil(ret.first).day
        /\ (Civil(arg.dt).month = 2 /\ Civil(arg.dt).day = 28 /\ Civil(ret.first).day = 31)
             => (Civil(ret.value).month = 3 /\ Civil(ret.value).day = 28)

\* a monthly event of 31 January 2023 has been rolled over to 28 February
\* and then to 28 March
C36_Witness ==
    /\ ret.called /\ ret.fn = "RollOverAgain"
    /\ ret.first = DateTime(2023, 1, 31, 10, 0)
    /\ arg.dt = DateTime(2023, 2, 28, 10, 0)
    /\ ret.value = DateTime(2023, 3, 28, 10, 0)

----------------------------------------------------------------------------
(* The tick and the event commands on one file, under Spec *)

\* a write of data.json was interrupted in this step (save_data raised after
\* open() truncated the file, or the process died in the write)
WriteInterrupted == file' = PartialFile /\ file # PartialFile

\* the tick has written event x with a later when (lines 212-216)
RolledOverAt(x) ==
    /\ pc = "save" /\ pc' = "sleep"
    /\ Persisted'.events[x].when > Persisted.events[x].when

\* /termin_edit has changed the date, the time or the reminders of event x
EditedAt(x) ==
    /\ EventEdited
    /\ req'.id = Persisted.events[x].id
    /\ req'.inp.datum.given \/ req'.inp.uhrzeit.given \/ req'.inp.erinnerung.given

\* C23: under every interleaving of ticks and command handlers, an offset a
\* tick has persisted in the sent set of an event stays in the persisted sent
\* set in every step that is neither a rollover of the event nor an edit of
\* its date, time or reminders; no handler writes back an older snapshot
C23_SentIsNotDropped ==
    [][~WriteInterrupted =>
         \A x \in DOMAIN Persisted.events : \A m \in Persisted.events[x].sent :
            /\ x \in DOMAIN Persisted'.events
            /\ Persisted'.events[x].id = Persisted.events[x].id
            /\ \/ m \in Persisted'.events[x].sent
               \/ RolledOverAt(x)
               \/ EditedAt(x)]_vars

\* a tick has persisted an offset; while the next tick is suspended in a send
\* a handler has saved its change of the same event, and the offset is still
\* in sent on data.json
C23_Witness ==
    /\ pc = "send" /\ reply.kind = "ok"
    /\ \E x \in DOMAIN Persisted.events :
         /\ Persisted.events[x].id = req.id
         /\ x \in DOMAIN loaded.events /\ Persisted.events[x] # loaded.events[x]
         /\ \E m \in Persisted.events[x].sent : \E e \in delivered \ tickLog :
              e.id = req.id /\ e.m = m /\ e.when = Persisted.events[x].when

\* send_dm has raised for a recipient of a DM event (line 206)
DmSendRaised ==
    /\ pc = "send" /\ last' = "send_failed"
    /\ data.events[i].target.type = "dm"

\* the tick that follows a tick with a failed send, nothing else having
\* happened in between, reaches its first send of a DM
RetryTickSends ==
    /\ pc = "sleep" /\ last = "send_failed" /\ quiet
    /\ pc' = "send" /\ data'.events[i'].target.type = "dm"

\* C25: when send_dm raises for a recipient of a DM event the tick goes on
\* with the remaining recipients and then records the offset in sent; the
\* next tick does not send again to a recipient who has received the reminder
C25_FailedDmIsNotRetried ==
    [][/\ DmSendRaised =>
            IF k < Len(Recipients(data.events[i]))
            THEN pc' = "send" /\ k' = k + 1
            ELSE data.events[i].reminders[j] \in data'.events[i].sent
       /\ RetryTickSends => Sending' \notin delivered]_vars

\* a tick ends: through lines 221-222, or through the handler at line 224
\* after a send has raised
TickEnds == pc # "sleep" /\ pc' = "sleep" /\ last' \in {"ok", "send_failed"}

\* no offset of the loaded snapshot is due and no event of it has reached its
\* date
NothingToDo ==
    /\ DueEntries = {}
    /\ \A x \in Slots : loaded.events[x].cancelled \/ n < loaded.events[x].when

\* C26: a tick writes data.json if and only if it has marked an offset sent,
\* rolled an event over or terminated one; a tick for which no offset is due
\* and no active event has now >= when leaves data.json unchanged
C26_WritesIffChanged ==
    [][TickEnds =>
         /\ data.events # loaded.events => file' = ObjectFile(data)
         /\ data.events = loaded.events => file' = file
         /\ NothingToDo => file' = file]_vars

\* what lines 189-219 make of one event of the snapshot at clock reading t
\* when every send returns
Processed(ev, t) ==
    IF ev.cancelled THEN ev
    ELSE RollOver([ev EXCEPT !.sent = @ \cup {m \in Range(ev.reminders) :
                                                InWindow(t, ev.when, m)}], t)

\* a tick begins (line 185)
TickBegins == pc = "sleep" /\ pc' # "sleep"

\* C28: a tick starts from what load_data reads from data.json and from the
\* clock, whatever happened before it (a completed tick, a failed one, a
\* restart of the process); the sends it has made when its loops are done and
\* the snapshot it then holds are a function of that snapshot and that clock
\* reading alone, and that is what it saves
C28_RestartSafe ==
    /\ [][TickBegins => (loaded' = Persisted /\ n' = now /\ tickLog' = {})]_vars
    /\ [](LoopDone =>
            /\ tickLog = DueEntries
            /\ data = [loaded EXCEPT !.events =
                         [x \in DOMAIN loaded.events |-> Processed(loaded.events[x], n)]]
            /\ changed = (data # loaded))
    /\ [][(LoopDone /\ last' = "ok") =>
            Persisted' = IF data # loaded THEN data ELSE Persisted]_vars

\* the process was restarted after a crash in a tick that had sent; the tick
\* after the restart has completed its loops, has sent and has changed events
C28_Witness == LoopDone /\ lost # {} /\ tickLog # {} /\ data # loaded

\* a save_data call raised, or the process died, in this step
SaveFailedOrInterrupted ==
    \/ last' = "save_failed" /\ pc = "save"
    \/ last' = "crashed" /\ pc = "save"
    \/ cmds' = cmds + 1 /\ faults' = faults + 1

\* C29: a save_data call that fails or is interrupted leaves on data.json the
\* snapshot that was there, complete and loadable; data.json is never an empty
\* or partial document from which load_data returns the defaults
C29_WriteIsAllOrNothing ==
    /\ [][SaveFailedOrInterrupted => (file' = file /\ Persisted' = Persisted)]_vars
    /\ [](file.kind \in {"missing", "object"})

\* the tick has rolled over or cancelled the event it loaded at position x
Closed(x) ==
    \/ data.events[x].when # loaded.events[x].when
    \/ data.events[x].cancelled /\ ~loaded.events[x].cancelled

\* the tick loaded the event at position x not cancelled and inside the 24
\* hours after its date
InGrace(x) ==
    /\ ~loaded.events[x].cancelled
    /\ n >= loaded.events[x].when
    /\ n < loaded.events[x].when + 24 * 60

\* C32: when a tick rolls over or cancels an event that it loaded with
\* when <= n < when + 24h, it has by then sent every offset of the event that
\* was not in sent, offset 0 included, to every recipient and with the date of
\* the occurrence that ends
C32_DeliveredBeforeRollover ==
    InTick =>
        \A x \in Slots :
            (InGrace(x) /\ Closed(x)) =>
                \A m \in Range(loaded.events[x].reminders) \ loaded.events[x].sent :
                    Entries(loaded.events[x], m) \subseteq tickLog

\* a tick has rolled over a recurring event at or after its date and has sent
\* its offset 0 with the old date
C32_Witness ==
    /\ LoopDone
    /\ \E x \in Slots :
         /\ InGrace(x)
         /\ loaded.events[x].recurrence # "none"
         /\ data.events[x].when > loaded.events[x].when
         /\ 0 \in Range(loaded.events[x].reminders) \ loaded.events[x].sent
         /\ Entries(loaded.events[x], 0) \subseteq tickLog

----------------------------------------------------------------------------
(* The tick and the commands on one file, under SpecRequests *)

\* line 222 has written: the tick that was at its save is asleep again
TickWrote == pc = "save" /\ changed /\ pc' = "sleep"

\* C22: the save of a tick writes the snapshot the tick loaded, with the
\* tick's own changes to when, sent and cancelled; the todos, the id counters
\* and every other field of the events are as loaded, so whatever a command
\* saved while the tick was suspended in a send is absent afterwards
C22_StaleSaveOverwrites ==
    [][TickWrote =>
         /\ Persisted' = data
         /\ Persisted'.todos = loaded.todos
         /\ Persisted'.next_todo_id = loaded.next_todo_id
         /\ Persisted'.next_event_id = loaded.next_event_id
         /\ DOMAIN Persisted'.events = DOMAIN loaded.events
         /\ \A x \in DOMAIN loaded.events :
              [Persisted'.events[x] EXCEPT !.when = 0, !.sent = {}, !.cancelled = FALSE]
              = [loaded.events[x] EXCEPT !.when = 0, !.sent = {}, !.cancelled = FALSE]]_vars

\* /todo answered with the id of a new todo while a tick was suspended, the
\* tick has saved, and data.json holds no todo with that id
C22_Witness ==
    /\ pc = "sleep" /\ last = "ok" /\ ~quiet
    /\ req.cmd = "todo_add" /\ reply.kind = "created"
    /\ \A x \in DOMAIN Persisted.todos : Persisted.todos[x].id # reply.id

\* the latest request was a cancel, by /termin_absagen or by the dashboard
\* button, and it was answered with success
CancelDone == req.cmd \in {"termin_absagen", "event_cancel_btn"} /\ reply.kind = "ok"

\* C24: after a cancel has succeeded the event is cancelled on data.json at
\* every later point, also when a tick was in progress during the cancel, and
\* a tick that starts after the cancel sends no reminder for it
C24_CancelIsFinal ==
    CancelDone =>
        /\ \E x \in DOMAIN Persisted.events : Persisted.events[x].id = req.id
        /\ \A x \in DOMAIN Persisted.events :
             Persisted.events[x].id = req.id => Persisted.events[x].cancelled
        /\ (quiet /\ pc # "sleep") => \A e \in tickLog : e.id # req.id

\* a command handler has run, from its load_data up to its answer
CommandStep == cmds' = cmds + 1

\* the handled request names the record of this kind with this id
Names(kind, id) == req'.kind = kind /\ "id" \in DOMAIN req' /\ req'.id = id

\* data.json after the step holds every record it held before, unchanged
\* unless the handled request names it, and no id counter went down
KeepsOthers ==
    /\ \A x \in DOMAIN Persisted.todos :
         /\ x \in DOMAIN Persisted'.todos
         /\ Names("todos", Persisted.todos[x].id) \/ Persisted'.todos[x] = Persisted.todos[x]
    /\ \A x \in DOMAIN Persisted.events :
         /\ x \in DOMAIN Persisted'.events
         /\ Names("events", Persisted.events[x].id) \/ Persisted'.events[x] = Persisted.events[x]
    /\ Persisted'.next_todo_id >= Persisted.next_todo_id
    /\ Persisted'.next_event_id >= Persisted.next_event_id

\* C31: a command handler reads data.json and writes it in one step, so what
\* it writes holds everything the commands before it wrote, apart from the
\* record it changes itself; a step that writes data.json and is not such a
\* command step is the save of a tick
C31_CommandsAreSerial ==
    /\ [][CommandStep => KeepsOthers]_vars
    /\ [][(file' # file /\ ~CommandStep) => TickWrote]_vars

\* two commands were handled, the second while a tick was suspended in a
\* send: the first stored an event, the second cancelled event 1, and
\* data.json holds both
C31_Witness ==
    /\ pc = "send" /\ cmds = 2 /\ ~quiet
    /\ req.cmd = "termin_absagen" /\ req.id = 1 /\ reply.kind = "ok"
    /\ Len(Persisted.events) = 2
    /\ Persisted.events[1].cancelled

\* C33: a /termin_edit that succeeds and leaves both the date and the set of
\* reminders of the event as they were leaves its sent as it was
C33_UnchangedEditKeepsSent ==
    [][EventEdited =>
         LET x == FirstActive(Persisted.events, req'.id)
         IN  ( /\ Persisted'.events[x].when = Persisted.events[x].when
               /\ Range(Persisted'.events[x].reminders) = Range(Persisted.events[x].reminders) )
             => Persisted'.events[x].sent = Persisted.events[x].sent]_vars

----------------------------------------------------------------------------
(* Runs without crashes, failed sends and failed saves, in which events are *)
(* created and cancelled only between two ticks and never edited           *)

BetweenTicks == pc = "sleep"

NextQuiet ==
    \/ TickLoad
    \/ SendOk
    \/ TickSave
    \/ \E t \in ClockPoints : Advance(t)
    \/ BetweenTicks /\ \E inp \in TerminInputs : termin_cmd(inp, "ok")
    \/ BetweenTicks /\ \E inp \in PTerminInputs : ptermin_cmd(inp, "ok")
    \/ BetweenTicks /\ \E id \in 1..MaxEvents : termin_absagen_cmd(id, "ok")

SpecQuiet == Init /\ [][NextQuiet]_vars

\* a send returns (the only step of such a run that starts in a send and
\* leaves the clock alone)
SendReturns == pc = "send" /\ now' = now /\ tickLog' = tickLog \cup {Sending}

\* C27: without crashes, failed sends, failed saves, edits and commands during
\* a tick, no reminder (event, occurrence, offset, recipient) is sent twice,
\* and an offset is in sent, on data.json and in the tick's snapshot, only if
\* it was sent for the date the event has there
C27_AtMostOnce ==
    /\ [][SendReturns => Sending \notin delivered]_vars
    /\ [](\A x \in DOMAIN Persisted.events : \A m \in Persisted.events[x].sent :
            Entries(Persisted.events[x], m) \subseteq delivered)
    /\ [](\A x \in DOMAIN data.events : \A m \in data.events[x].sent :
            Entries(data.events[x], m) \subseteq delivered)

\* a daily event whose reminder was sent for one date has been rolled over and
\* the same offset has been sent for the next date
C27_Witness ==
    \E e \in tickLog : \E f \in delivered :
        /\ f.id = e.id /\ f.m = e.m /\ f.uid = e.uid
        /\ e.when = f.when + timedelta_days(1)

----------------------------------------------------------------------------
(* Progress of the loop when the sends to one recipient never succeed: arg  *)
(* names that recipient and what its sends do: return, raise, never return  *)

DmEvent == NewEvent(1, "A", W1, <<30, 0>>, "none", DmTarget(<<1, 2>>))
ChannelEvent == NewEvent(2, "B", W1, <<30, 0>>, "none", ChannelTarget)

SendBehaviours ==
    {[fn |-> "send", bad |-> u, outcome |-> o] : u \in {Channel, 1, 2},
                                                  o \in {"returns", "raises", "hangs"}}

InitLive ==
    /\ arg \in SendBehaviours
    /\ file \in {ObjectFile([Default EXCEPT !.events = es, !.next_event_id = 3]) :
                   es \in {<<DmEvent, ChannelEvent>>, <<ChannelEvent, DmEvent>>}}
    /\ now \in {W1 - 30, W1}
    /\ ret = NotCalled
    /\ pc = "sleep"
    /\ data = Default
    /\ loaded = Default
    /\ n = 0
    /\ changed = FALSE
    /\ i = 1 /\ j = 1 /\ k = 1
    /\ tickLog = {}
    /\ prevLog = {}
    /\ quiet = FALSE
    /\ last = "none"
    /\ delivered = {}
    /\ lost = {}
    /\ unsaved = NoUnsaved
    /\ cmds = 0
    /\ faults = 0
    /\ req = NoRequest
    /\ reply = NoReply
    /\ issued = [NothingIssued EXCEPT !.events = {1, 2}]
    /\ softDeleted = {}

\* the awaited send returns: the recipient is not the one arg names, or the
\* sends to that one return too
SendComesBack ==
    /\ pc = "send"
    /\ Sending.uid # arg.bad \/ arg.outcome = "returns"
    /\ SendOk

\* the awaited send raises, each time it is made
SendKeepsRaising ==
    /\ pc = "send"
    /\ Sending.uid = arg.bad
    /\ arg.outcome = "raises"
    /\ SendAborts
    /\ UNCHANGED budget

\* a send that never returns takes no step: lines 203/206 await it without a
\* timeout

NextLive == TickLoad \/ SendComesBack \/ SendKeepsRaising \/ TickSave

\* asyncio resumes the loop when its sleep is over, when a send has returned
\* or raised, and runs it up to the next await
SpecLive ==
    /\ InitLive
    /\ [][NextLive]_vars
    /\ WF_vars(TickLoad)
    /\ WF_vars(SendComesBack)
    /\ WF_vars(SendKeepsRaising)
    /\ WF_vars(TickSave)

\* the recipients of the event with this id can all be reached
Reachable(id) ==
    \A x \in DOMAIN Persisted.events :
        Persisted.events[x].id = id => arg.bad \notin Range(Recipients(Persisted.events[x]))

\* the 30-minute reminder of the event with this id is recorded on data.json
Recorded(id) ==
    \E x \in DOMAIN Persisted.events :
        Persisted.events[x].id = id /\ 30 \in Persisted.events[x].sent

\* C30: every tick completes and the loop goes to sleep again and again, also
\* when the sends to one recipient never return or always raise, and the due
\* reminder of an event whose recipients can be reached is then delivered and
\* recorded
C30_LoopMakesProgress ==
    /\ []<>(pc = "sleep" /\ last \in {"ok", "send_failed"})
    /\ Reachable(1) ~> Recorded(1)
    /\ Reachable(2) ~> Recorded(2)

----------------------------------------------------------------------------
(* Catching up: data.json holds one recurring event whose date lies in the  *)
(* past, as after a downtime; arg keeps that date and the clock of the start *)

\* the dates: up to MaxLate whole periods before W1, to the minute or almost
\* one period more; for monthly, one and two months before W1
LateDates(recurrence) ==
    IF recurrence = "monthly"
    THEN {DateTime(2023, 12, 31, 10, 0), DateTime(2023, 11, 30, 10, 0)}
    ELSE {W1 - (late * Period(recurrence) + o) :
            late \in 0..MaxLate, o \in {0, Period(recurrence) - 1}}

InitCatchUp ==
    /\ arg \in UNION {{[fn |-> "catch_up", recurrence |-> r, when |-> w, now |-> W1] :
                         w \in LateDates(r)} : r \in Recurrences \ {"none"}}
    /\ file = ObjectFile([Default EXCEPT
                            !.events = <<NewEvent(1, "A", arg.when, <<30, 0>>,
                                                  arg.recurrence, ChannelTarget)>>,
                            !.next_event_id = 2])
    /\ now = arg.now
    /\ ret = NotCalled
    /\ pc = "sleep"
    /\ data = Default
    /\ loaded = Default
    /\ n = 0
    /\ changed = FALSE
    /\ i = 1 /\ j = 1 /\ k = 1
    /\ tickLog = {}
    /\ prevLog = {}
    /\ quiet = FALSE
    /\ last = "none"
    /\ delivered = {}
    /\ lost = {}
    /\ unsaved = NoUnsaved
    /\ cmds = 0
    /\ faults = 0
    /\ req = NoRequest
    /\ reply = NoReply
    /\ issued = [NothingIssued EXCEPT !.events = {1}]
    /\ softDeleted = {}

\* the instants the clock is read at while the event catches up
CatchUpClock == {W1 + 1, W1 + timedelta_days(1) - 1, W1 + timedelta_days(1),
                 W1 + 2 * timedelta_days(1) - 2}

\* the clock advances once per tick at most, by less than a day
Tock(t) ==
    /\ quiet
    /\ t - now < timedelta_days(1)
    /\ Advance(t)

NextCatchUp ==
    \/ TickLoad
    \/ SendOk
    \/ TickSave
    \/ \E t \in CatchUpClock : Tock(t)

\* line 227 returns after CHECK_INTERVAL_SECONDS and the sends return
SpecCatchUp ==
    /\ InitCatchUp
    /\ [][NextCatchUp]_vars
    /\ WF_vars(TickLoad)
    /\ WF_vars(SendOk)
    /\ WF_vars(TickSave)

\* the event's date on data.json
CatchUpWhen == Persisted.events[1].when

\* the rollovers so far, and the whole periods the first date lies before t
Rollovers == (CatchUpWhen - arg.when) \div Period(arg.recurrence)
PeriodsLate(t) == (t - arg.when) \div Period(arg.recurrence)

\* a tick that read n at or after the date saves the date one period later,
\* any other tick leaves the date
OnePeriodPerTick ==
    [][(pc = "save" /\ pc' = "sleep") =>
         Persisted'.events[1].when =
            IF n >= CatchUpWhen THEN next_occurrence(CatchUpWhen, arg.recurrence)
            ELSE CatchUpWhen]_vars

\* during a tick: what it has sent is for the date it loaded, and n is less
\* than 24 hours after that date
SentInGraceOnly ==
    InTick => \A e \in tickLog : e.when = loaded.events[1].when /\ n < e.when + 24 * 60

\* rollover number k+1 is saved, k being the whole periods between the first
\* date and the clock of the start
LastRollover ==
    /\ pc = "save" /\ pc' = "sleep"
    /\ arg.recurrence \in {"daily", "weekly"}
    /\ (Persisted'.events[1].when - arg.when) \div Period(arg.recurrence)
         = PeriodsLate(arg.now) + 1
    /\ Persisted'.events[1].when # CatchUpWhen

====
